---- MODULE Spec2Model ----
(***************************************************************************)
(* Verification model of the ingestion pipeline of re_scraper:             *)
(*   - BaseScraper (rate-limited fetcher), src/src/scrapers/base_scraper.py*)
(*   - DataValidator, src/src/etl/data_validator.py                        *)
(*   - DeduplicationEngine, src/src/etl/deduplication.py                   *)
(*   - DataProcessor (batch pipeline), src/src/etl/data_processor.py       *)
(*   - DataTransformer and PropertyTransformer (transform steps)           *)
(*   - search_properties of the site adapters (crawl loop)                 *)
(* Times are whole seconds; a GET is answered within the second it is     *)
(* sent.  Strings are tuples of one-character strings.                     *)
(***************************************************************************)
EXTENDS Integers, Sequences, FiniteSets, TLC

VARIABLES
    clock,      \* time.time(), in seconds
    scraper,    \* the BaseScraper instance's rate-limiting and session fields
    reqTimes,   \* history: the time of every outbound session.get, in order
    fetch,      \* the last finished make_request call: statuses seen, outcome
    nFetches,   \* the number of make_request calls made
    sim,        \* one _calculate_similarity call: loop position, totals, result
    vrec,       \* the property dict handed to validate_property_data
    vout,       \* what validate_property_data returned for vrec
    proc,       \* the DataProcessor run: position, frames, results
    chk,        \* concurrent is_duplicate calls against one properties table
    xf,         \* transform calls of one input record: the time and output of each
    fp,         \* two addresses, in two spellings, and their fingerprints
    crawl,      \* one search_properties generator: page, yielded records, end
    cmp,        \* one _numeric_similarity call: field, the two values, the score
    grp,        \* one find_duplicates_in_batch call: the batch, loop state, groups
    mrg,        \* one merge_duplicate_properties call: the members and the result
    ext,        \* one _extract_property_details call: the record before and after
    job         \* one scrape_properties task and the scrape_jobs row it updates

vars == <<clock, scraper, reqTimes, fetch, nFetches, sim, vrec, vout, proc, chk,
          xf, fp, crawl, cmp, grp, mrg, ext, job>>

fetchVars == <<clock, scraper, reqTimes, fetch, nFetches>>
simVars == <<sim>>
valVars == <<vrec, vout>>
procVars == <<proc, chk>>
xfVars == <<xf>>
fpVars == <<fp>>
crawlVars == <<crawl>>
dedupVars == <<cmp, grp, mrg>>
extVars == <<ext>>
jobVars == <<job>>

None == "None"

Max(a, b) == IF a >= b THEN a ELSE b
Min(a, b) == IF a <= b THEN a ELSE b
Abs(a) == IF a < 0 THEN 0 - a ELSE a
\* the member of a one-element set
TheOne(S) == CHOOSE x \in S : TRUE

(***************************************************************************)
(* Python values.  A value is a record of one shape: t is its type, n/d    *)
(* the number it holds (a rational, d > 0; d = 1 where Python holds an     *)
(* int), s the characters of a string.                                     *)
(***************************************************************************)

PyNone == [t |-> "None", n |-> 0, d |-> 1, s |-> <<>>]
\* float('nan'), what a pandas row holds where the record had no such key
NaN == [t |-> "nan", n |-> 0, d |-> 1, s |-> <<>>]
Num(k) == [t |-> "num", n |-> k, d |-> 1, s |-> <<>>]
Half(k) == [t |-> "num", n |-> k, d |-> 2, s |-> <<>>]
Str(cs) == [t |-> "str", n |-> 0, d |-> 1, s |-> cs]

\* A dict is a function from its keys to values.  dict.get(key):
Get(data, key) == IF key \in DOMAIN data THEN data[key] ELSE PyNone
\* data[key] = v
Put(data, key, v) ==
    [k \in DOMAIN data \cup {key} |-> IF k = key THEN v ELSE data[k]]

\* bool(v)
Truthy(v) ==
    CASE v.t = "num" -> v.n # 0
      [] v.t = "str" -> v.s # <<>>
      [] v.t = "nan" -> TRUE
      [] OTHER -> FALSE

RECURSIVE Gcd(_, _)
Gcd(a, b) == IF b = 0 THEN a ELSE Gcd(b, a % b)

\* the rational n/d in lowest terms, d > 0
Frac(n, d) ==
    LET g == Gcd(Abs(n), Abs(d))
        sgn == IF d < 0 THEN 0 - 1 ELSE 1
    IN  [n |-> sgn * (n \div g), d |-> sgn * (d \div g)]

FracAdd(x, y) == Frac(x.n * y.d + y.n * x.d, x.d * y.d)
FracMul(x, y) == Frac(x.n * y.n, x.d * y.d)
FracLeq(x, y) == x.n * y.d <= y.n * x.d
FracLt(x, y) == x.n * y.d < y.n * x.d
Zero == [n |-> 0, d |-> 1]
One == [n |-> 1, d |-> 1]

Digits == <<"0", "1", "2", "3", "4", "5", "6", "7", "8", "9">>
IsDigit(c) == \E i \in 1..10 : Digits[i] = c
DigitVal(c) == (CHOOSE i \in 1..10 : Digits[i] = c) - 1

Upper == <<"A","B","C","D","E","F","G","H","I","J","K","L","M",
           "N","O","P","Q","R","S","T","U","V","W","X","Y","Z">>
Lower == <<"a","b","c","d","e","f","g","h","i","j","k","l","m",
           "n","o","p","q","r","s","t","u","v","w","x","y","z">>

\* str.lower()
LowerChar(c) ==
    IF \E i \in 1..26 : Upper[i] = c
    THEN Lower[CHOOSE i \in 1..26 : Upper[i] = c]
    ELSE c
ToLower(cs) == [i \in 1..Len(cs) |-> LowerChar(cs[i])]

\* str.strip()
IsSpace(c) == c = " "
RECURSIVE LStrip(_)
LStrip(cs) == IF cs # <<>> /\ IsSpace(Head(cs)) THEN LStrip(Tail(cs)) ELSE cs
RECURSIVE RStrip(_)
RStrip(cs) ==
    IF cs # <<>> /\ IsSpace(cs[Len(cs)])
    THEN RStrip(SubSeq(cs, 1, Len(cs) - 1))
    ELSE cs
Strip(cs) == RStrip(LStrip(cs))

\* str(k) for an int k
RECURSIVE NatToStr(_)
NatToStr(k) ==
    IF k < 10 THEN <<Digits[k + 1]>>
    ELSE Append(NatToStr(k \div 10), Digits[(k % 10) + 1])
IntToStr(k) == IF k < 0 THEN <<"-">> \o NatToStr(0 - k) ELSE NatToStr(k)

\* str(v): a str is itself, an int its digits
PyStr(v) ==
    CASE v.t = "str" -> v.s
      [] v.t = "nan" -> <<"n", "a", "n">>
      [] v.t = "None" -> <<"N", "o", "n", "e">>
      [] OTHER -> IntToStr(v.n)

\* the value of a run of digits
RECURSIVE DigitsVal(_)
DigitsVal(cs) ==
    IF cs = <<>> THEN 0
    ELSE 10 * DigitsVal(SubSeq(cs, 1, Len(cs) - 1)) + DigitVal(cs[Len(cs)])

RECURSIVE Pow10(_)
Pow10(k) == IF k = 0 THEN 1 ELSE 10 * Pow10(k - 1)

\* float(text): surrounding blanks are ignored; an optional sign, then digits
\* with at most one point and at least one digit, or the word nan (the
\* exponent and inf forms are not in the texts used here).
\* ok = FALSE is ValueError.
ParseFloat(text) ==
    LET cs == Strip(text)
        signed == cs # <<>> /\ cs[1] \in {"-", "+"}
        body == IF signed THEN Tail(cs) ELSE cs
        points == {i \in 1..Len(body) : body[i] = "."}
        wellFormed ==
            /\ Cardinality(points) <= 1
            /\ \A i \in 1..Len(body) : IsDigit(body[i]) \/ body[i] = "."
            /\ \E i \in 1..Len(body) : IsDigit(body[i])
        digits == SelectSeq(body, IsDigit)
        decimals == IF points = {} THEN 0
                    ELSE Len(body) - (CHOOSE i \in points : TRUE)
        mag == Frac(DigitsVal(digits), Pow10(decimals))
    IN  IF ToLower(body) = <<"n", "a", "n">>
        THEN [ok |-> TRUE, nan |-> TRUE, n |-> 0, d |-> 1]
        ELSE IF ~wellFormed THEN [ok |-> FALSE, nan |-> FALSE, n |-> 0, d |-> 1]
        ELSE [ok |-> TRUE, nan |-> FALSE,
              n |-> IF signed /\ cs[1] = "-" THEN 0 - mag.n ELSE mag.n,
              d |-> mag.d]

\* float(v) for any value: TypeError on None, ValueError on unparsable text
ToFloat(v) ==
    CASE v.t = "num" -> [ok |-> TRUE, nan |-> FALSE, n |-> v.n, d |-> v.d]
      [] v.t = "nan" -> [ok |-> TRUE, nan |-> TRUE, n |-> 0, d |-> 1]
      [] v.t = "str" -> ParseFloat(v.s)
      [] OTHER -> [ok |-> FALSE, nan |-> FALSE, n |-> 0, d |-> 1]

(***************************************************************************)
(* BaseScraper: rate limiting and make_request                             *)
(***************************************************************************)

\* settings.scraper, scaled: the quota is small so that a run can exhaust it
requests_per_minute == 2
delay_between_requests == 2
random_delays == TRUE
min_delay == 1
max_delay == 5
WindowSeconds == 60

\* model bounds
NumProxies == 2
MaxFetches == 3
MaxClock == 70
ConstructTime == 10

\* the caller's idle time between two fetches
IdleSteps == {10, 50}
\* random.uniform(min_delay, max_delay): the two ends of the interval
Jitters == {min_delay, max_delay}
\* the answers of the remote site; NetErr is a requests.RequestException
NetErr == 0
Statuses == {200, 403, 429, 500, NetErr}

\* self.session = None; a session is told apart by the proxy it was set up with
NoProxy == 0 - 1
NoSession == [open |-> FALSE, proxy |-> NoProxy]

ScraperInit ==
    [ last_request_time |-> 0,
      request_count |-> 0,
      start_time |-> ConstructTime,
      session |-> NoSession,
      current_proxy_index |-> 0 ]

\* _apply_rate_limiting: returns the instance fields and the clock after it
ApplyRateLimiting(s, t, jitter) ==
    LET current_time == t
        reset == current_time - s.start_time >= WindowSeconds
        rc1 == IF reset THEN 0 ELSE s.request_count
        st1 == IF reset THEN current_time ELSE s.start_time
        over == rc1 >= requests_per_minute
        sleep_time == WindowSeconds - (current_time - st1)
        slept == over /\ sleep_time > 0
        t1 == IF slept THEN current_time + sleep_time ELSE current_time
        rc2 == IF slept THEN 0 ELSE rc1
        st2 == IF slept THEN t1 ELSE st1
        time_since_last == current_time - s.last_request_time
        t2 == IF time_since_last < delay_between_requests
              THEN t1 + (delay_between_requests - time_since_last)
              ELSE t1
        t3 == IF random_delays THEN t2 + jitter ELSE t2
    IN  [ s |-> [s EXCEPT !.request_count = rc2 + 1,
                          !.start_time = st2,
                          !.last_request_time = t3],
          t |-> t3 ]

\* _get_next_proxy: the proxy handed out and the advanced index
GetNextProxy(s) ==
    IF NumProxies = 0
    THEN [ proxy |-> NoProxy, s |-> s ]
    ELSE [ proxy |-> s.current_proxy_index,
           s |-> [s EXCEPT !.current_proxy_index =
                             (s.current_proxy_index + 1) % NumProxies] ]

\* get_session / _setup_session: a session is its proxy; created when absent
GetSession(s) ==
    IF s.session.open
    THEN s
    ELSE LET p == GetNextProxy(s)
         IN  [p.s EXCEPT !.session = [open |-> TRUE, proxy |-> p.proxy]]

\* the outcome of make_request once its last response is known
\* (raise_for_status turns every status >= 400 into a RequestException)
FinalOutcome(status) ==
    IF status = NetErr THEN "ScrapingError"
    ELSE IF status >= 400 THEN "ScrapingError"
    ELSE "response"

\* make_request: rate limiting, the GET, and the retry that follows a 403
MakeRequest ==
    /\ nFetches < MaxFetches
    /\ clock <= MaxClock
    /\ \E jitter \in Jitters, st1 \in Statuses, st2 \in Statuses :
        LET rl == ApplyRateLimiting(scraper, clock, jitter)
            s1 == GetSession(rl.s)
            tSent == rl.t
            retry == st1 = 403
            s2 == IF retry THEN GetSession([s1 EXCEPT !.session = NoSession]) ELSE s1
            outcome == IF st1 = NetErr THEN "ScrapingError"
                       ELSE IF st1 = 429 THEN "RateLimitError"
                       ELSE IF retry THEN FinalOutcome(st2)
                       ELSE FinalOutcome(st1)
        IN  /\ (~retry => st2 = 200)
            /\ scraper' = s2
            /\ clock' = tSent
            /\ reqTimes' = IF retry THEN reqTimes \o <<tSent, tSent>>
                           ELSE Append(reqTimes, tSent)
            /\ fetch' = [ outcome |-> outcome,
                          statuses |-> IF retry THEN <<st1, st2>> ELSE <<st1>>,
                          proxies |-> IF retry
                                      THEN <<s1.session.proxy, s2.session.proxy>>
                                      ELSE <<s1.session.proxy>> ]
            /\ nFetches' = nFetches + 1
    /\ UNCHANGED <<simVars, valVars, procVars, xfVars, fpVars, crawlVars, dedupVars, extVars, jobVars>>

\* the caller does something else between two fetches
Idle ==
    /\ clock <= MaxClock
    /\ \E d \in IdleSteps : clock' = clock + d
    /\ UNCHANGED <<scraper, reqTimes, fetch, nFetches, simVars, valVars, procVars, xfVars, fpVars, crawlVars, dedupVars, extVars, jobVars>>

FetchInit ==
    /\ clock = ConstructTime
    /\ scraper = ScraperInit
    /\ reqTimes = <<>>
    /\ fetch = [outcome |-> None, statuses |-> <<>>, proxies |-> <<>>]
    /\ nFetches = 0


SimIdle == sim = None
ValIdle == vrec = None /\ vout = None
ProcIdle == proc = None /\ chk = None
XfIdle == xf = None
FpIdle == fp = None
CrawlIdle == crawl = None
DedupIdle == cmp = None /\ grp = None /\ mrg = None
ExtIdle == ext = None
JobIdle == job = None

InitFetch == FetchInit /\ SimIdle /\ ValIdle /\ ProcIdle /\ XfIdle /\ FpIdle /\ CrawlIdle /\ DedupIdle /\ ExtIdle /\ JobIdle
NextFetch == MakeRequest \/ Idle
SpecFetch == InitFetch /\ [][NextFetch]_vars

\* the number of outbound requests in the 60 seconds that end at time t
RequestsInWindow(t) ==
    Cardinality({i \in 1..Len(reqTimes) :
                    reqTimes[i] <= t /\ reqTimes[i] > t - WindowSeconds})

\* C1: in every trailing 60-second window the fetcher has issued at most
\* requests_per_minute outbound requests (the retry after a 403 included).
C1_QuotaPerWindow ==
    \A i \in 1..Len(reqTimes) : RequestsInWindow(reqTimes[i]) <= requests_per_minute

\* C13: a fetch in which any response was a 429, the response to the retry
\* that follows a 403 included, ends with RateLimitError.
C13_Every429IsThrottled ==
    (\E i \in 1..Len(fetch.statuses) : fetch.statuses[i] = 429)
        => fetch.outcome = "RateLimitError"

\* C14: a fetch answered 403 takes a new session with the next proxy and
\* sends exactly one retry; a fetch whose retry is answered 403 as well ends
\* with an outcome that is not the outcome of a network failure; no fetch
\* sends more than two requests.
C14_BlockedAfterOneRetry ==
    /\ Len(fetch.statuses) <= 2
    /\ (Len(fetch.statuses) >= 1 /\ fetch.statuses[1] = 403) =>
            /\ Len(fetch.statuses) = 2
            /\ fetch.proxies[2] # fetch.proxies[1]
    /\ fetch.statuses = <<403, 403>> => fetch.outcome # FinalOutcome(NetErr)

(***************************************************************************)
(* DeduplicationEngine: similarity scoring                                 *)
(***************************************************************************)

FracSub(x, y) == Frac(x.n * y.d - y.n * x.d, x.d * y.d)
FracDiv(x, y) == Frac(x.n * y.d, x.d * y.n)
FracAbs(x) == [n |-> Abs(x.n), d |-> x.d]
FracMax(x, y) == IF FracLt(x, y) THEN y ELSE x

\* self.field_weights, in hundredths, in the dict's order
FieldOrder == <<"street_address", "city", "state", "zip_code",
                "bedrooms", "bathrooms", "square_feet">>
field_weights ==
    [ street_address |-> 30, city |-> 15, state |-> 10, zip_code |-> 15,
      bedrooms |-> 10, bathrooms |-> 10, square_feet |-> 10 ]
\* self.similarity_threshold = 0.85
similarity_threshold == [n |-> 17, d |-> 20]

StringFields == {"street_address", "city", "state", "zip_code"}
NumericFields == {"bedrooms", "bathrooms", "square_feet", "price"}

\* difflib: the length of the common run that starts at a[i] and b[j]
RECURSIVE RunLen(_, _, _, _)
RunLen(a, b, i, j) ==
    IF i <= Len(a) /\ j <= Len(b) /\ a[i] = b[j]
    THEN 1 + RunLen(a, b, i + 1, j + 1)
    ELSE 0

\* SequenceMatcher.find_longest_match: the longest common block, the one that
\* starts earliest in a and, among those, earliest in b
FindLongestMatch(a, b) ==
    LET lens == {RunLen(a, b, i, j) : i \in 1..Len(a), j \in 1..Len(b)}
        k == IF lens = {} THEN 0 ELSE CHOOSE m \in lens : \A o \in lens : o <= m
        is == {i \in 1..Len(a) : \E j \in 1..Len(b) : RunLen(a, b, i, j) = k}
        bi == CHOOSE i \in is : \A o \in is : i <= o
        js == {j \in 1..Len(b) : RunLen(a, b, bi, j) = k}
        bj == CHOOSE j \in js : \A o \in js : j <= o
    IN  IF k = 0 THEN [i |-> 1, j |-> 1, k |-> 0] ELSE [i |-> bi, j |-> bj, k |-> k]

\* SequenceMatcher.get_matching_blocks: the total size of the matching blocks
RECURSIVE MatchedChars(_, _)
MatchedChars(a, b) ==
    LET m == FindLongestMatch(a, b)
    IN  IF m.k = 0 THEN 0
        ELSE m.k
             + MatchedChars(SubSeq(a, 1, m.i - 1), SubSeq(b, 1, m.j - 1))
             + MatchedChars(SubSeq(a, m.i + m.k, Len(a)), SubSeq(b, m.j + m.k, Len(b)))

\* SequenceMatcher(None, a, b).ratio()
SequenceRatio(a, b) ==
    IF Len(a) + Len(b) = 0 THEN One
    ELSE Frac(2 * MatchedChars(a, b), Len(a) + Len(b))

\* mutant: the emptiness test made after normalising instead of before
StringSimilarity_StripFirst(str1, str2) ==
    LET s1 == Strip(ToLower(str1))
        s2 == Strip(ToLower(str2))
    IN  IF s1 = <<>> \/ s2 = <<>> THEN Zero
        ELSE IF s1 = s2 THEN One ELSE SequenceRatio(s1, s2)

\* _string_similarity
StringSimilarity(str1, str2) ==
    IF str1 = <<>> \/ str2 = <<>> THEN Zero
    ELSE LET s1 == Strip(ToLower(str1))
             s2 == Strip(ToLower(str2))
         IN  IF s1 = s2 THEN One ELSE SequenceRatio(s1, s2)

\* tolerance_map.get(field_name, 0.1)
Tolerance(field_name) ==
    CASE field_name = "bedrooms" -> Zero
      [] field_name = "bathrooms" -> [n |-> 1, d |-> 2]
      [] field_name = "square_feet" -> [n |-> 1, d |-> 10]
      [] field_name = "price" -> [n |-> 1, d |-> 20]
      [] OTHER -> [n |-> 1, d |-> 10]

\* mutant: the gradual decrease returned without the max(0.0, ...) around it
NumericSimilarity_NoClamp(num1, num2, field_name) ==
    LET f1 == ToFloat(num1)
        f2 == ToFloat(num2)
        n1 == Frac(f1.n, f1.d)
        n2 == Frac(f2.n, f2.d)
        tolerance == Tolerance(field_name)
        diff == FracAbs(FracSub(n1, n2))
        max_val == FracMax(FracAbs(n1), FracAbs(n2))
        difference_ratio == FracDiv(diff, max_val)
    IN  IF ~f1.ok \/ ~f2.ok THEN Zero
        ELSE IF f1.nan \/ f2.nan
             \* every comparison with nan is False; max(abs(n1), abs(n2)) is
             \* abs(n1) then, and max(0.0, nan) is 0.0
             THEN (IF field_name # "bedrooms" /\ ~f1.nan /\ n1 = Zero
                   THEN One ELSE Zero)
        ELSE IF n1 = n2 THEN One
        ELSE IF field_name = "bedrooms"
             THEN (IF FracLeq(diff, tolerance) THEN One ELSE Zero)
        ELSE IF max_val = Zero THEN One
        ELSE IF FracLeq(difference_ratio, tolerance) THEN One
        ELSE FracSub(One, FracDiv(FracSub(difference_ratio, tolerance),
                                  FracSub(One, tolerance)))

\* _numeric_similarity
NumericSimilarity(num1, num2, field_name) ==
    LET f1 == ToFloat(num1)
        f2 == ToFloat(num2)
        n1 == Frac(f1.n, f1.d)
        n2 == Frac(f2.n, f2.d)
        tolerance == Tolerance(field_name)
        diff == FracAbs(FracSub(n1, n2))
        max_val == FracMax(FracAbs(n1), FracAbs(n2))
        difference_ratio == FracDiv(diff, max_val)
    IN  IF ~f1.ok \/ ~f2.ok THEN Zero
        ELSE IF f1.nan \/ f2.nan
             \* every comparison with nan is False; max(abs(n1), abs(n2)) is
             \* abs(n1) then, and max(0.0, nan) is 0.0
             THEN (IF field_name # "bedrooms" /\ ~f1.nan /\ n1 = Zero
                   THEN One ELSE Zero)
        ELSE IF n1 = n2 THEN One
        ELSE IF field_name = "bedrooms"
             THEN (IF FracLeq(diff, tolerance) THEN One ELSE Zero)
        ELSE IF n1 = Zero /\ n2 = Zero THEN One
        ELSE IF max_val = Zero THEN One
        ELSE IF FracLeq(difference_ratio, tolerance) THEN One
        ELSE FracMax(Zero,
                     FracSub(One, FracDiv(FracSub(difference_ratio, tolerance),
                                          FracSub(One, tolerance))))

\* _calculate_field_similarity: some = FALSE is the None it returns
FieldSimilarity(value1, value2, field_name) ==
    IF value1.t = "None" \/ value2.t = "None"
    THEN [some |-> FALSE, v |-> Zero]
    ELSE IF field_name \in StringFields
    THEN [some |-> TRUE, v |-> StringSimilarity(PyStr(value1), PyStr(value2))]
    ELSE IF field_name \in NumericFields
    THEN [some |-> TRUE, v |-> NumericSimilarity(value1, value2, field_name)]
    ELSE [some |-> TRUE, v |-> IF value1 = value2 THEN One ELSE Zero]

\* the body of the loop of _calculate_similarity, on the running totals
AccumulateField(acc, field_similarity, weight) ==
    IF field_similarity.some
    THEN [ total_score |-> FracAdd(acc.total_score,
                                   FracMul(field_similarity.v, Frac(weight, 100))),
           total_weight |-> acc.total_weight + weight ]
    ELSE acc

\* the return of _calculate_similarity
SimilarityResult(acc) ==
    IF acc.total_weight > 0
    THEN FracDiv(acc.total_score, Frac(acc.total_weight, 100))
    ELSE Zero

\* _calculate_similarity on two dicts (functions from field to value)
RECURSIVE SimilarityFrom(_, _, _, _)
SimilarityFrom(acc, property1, property2, i) ==
    IF i > Len(FieldOrder) THEN SimilarityResult(acc)
    ELSE SimilarityFrom(
            AccumulateField(acc,
                            FieldSimilarity(Get(property1, FieldOrder[i]),
                                            Get(property2, FieldOrder[i]),
                                            FieldOrder[i]),
                            field_weights[FieldOrder[i]]),
            property1, property2, i + 1)
CalculateSimilarity(property1, property2) ==
    SimilarityFrom([total_score |-> Zero, total_weight |-> 0], property1, property2, 1)

\* bounds of the values the comparison is run on
MaxStrLen == 2
MaxNum == 2

SimAlphabet == {"a", "B", " "}
RECURSIVE StringsUpTo(_)
StringsUpTo(k) ==
    IF k = 0 THEN {<<>>}
    ELSE LET shorter == StringsUpTo(k - 1)
         IN  shorter \cup {Append(cs, c) : cs \in shorter, c \in SimAlphabet}

\* what a text field may hold: None, a str (the empty one included), an int
TextValues == {PyNone, Num(7)} \cup {Str(cs) : cs \in StringsUpTo(MaxStrLen)}
\* what a number field may hold: None, nan, ints, halves, numeric and other text
NumberValues ==
    {PyNone, NaN, Str(<<"2">>), Str(<<"x">>)}
        \cup {Num(k) : k \in (0 - MaxNum)..MaxNum}
        \cup {Half(k) : k \in {j \in (0 - 2 * MaxNum)..(2 * MaxNum) : j % 2 = 1}}
\* the other text fields are compared by the same code: a smaller choice
ShortTextValues ==
    {PyNone, Num(7), Str(<<>>), Str(<<"a">>), Str(<<" ", "A">>), Str(<<"B">>)}
ValuesOf(field) ==
    IF field = "street_address" THEN TextValues
    ELSE IF field \in StringFields THEN ShortTextValues
    ELSE NumberValues

\* a field is populated: a non-empty str or an int in a text field, a number
\* (or text that float() reads as one) in a number field; nan is a missing value
Populated(v, field) ==
    IF field \in StringFields
    THEN v.t = "num" \/ (v.t = "str" /\ v.s # <<>>)
    ELSE ToFloat(v).ok /\ ~ToFloat(v).nan

\* _calculate_field_similarity on every pair of values a field is given here,
\* computed once
FieldSimilarityTable ==
    [ i \in 1..Len(FieldOrder) |->
        [ p \in ValuesOf(FieldOrder[i]) \X ValuesOf(FieldOrder[i]) |->
            FieldSimilarity(p[1], p[2], FieldOrder[i]) ] ]

SimInit ==
    sim = [ i |-> 0, total_score |-> Zero, total_weight |-> 0,
            done |-> FALSE, result |-> Zero,
            self |-> TRUE, shared |-> 0 ]

\* one pass of the loop over field_weights, the two values drawn freely
CompareField ==
    /\ sim.i < Len(FieldOrder)
    /\ \E value1 \in ValuesOf(FieldOrder[sim.i + 1]),
          value2 \in ValuesOf(FieldOrder[sim.i + 1]) :
        LET field == FieldOrder[sim.i + 1]
            acc == AccumulateField([total_score |-> sim.total_score,
                                    total_weight |-> sim.total_weight],
                                   FieldSimilarityTable[sim.i + 1][<<value1, value2>>],
                                   field_weights[field])
        IN  sim' = [sim EXCEPT
                      !.i = sim.i + 1,
                      !.total_score = acc.total_score,
                      !.total_weight = acc.total_weight,
                      !.self = sim.self /\ value1 = value2 /\ Populated(value1, field),
                      !.shared = sim.shared
                                 + (IF value1.t # "None" /\ value2.t # "None"
                                    THEN 1 ELSE 0)]
    /\ UNCHANGED <<fetchVars, valVars, procVars, xfVars, fpVars, crawlVars, dedupVars, extVars, jobVars>>

\* the return statement
SimReturn ==
    /\ sim.i = Len(FieldOrder)
    /\ ~sim.done
    /\ sim' = [sim EXCEPT !.done = TRUE,
                          !.result = SimilarityResult([total_score |-> sim.total_score,
                                                       total_weight |-> sim.total_weight])]
    /\ UNCHANGED <<fetchVars, valVars, procVars, xfVars, fpVars, crawlVars, dedupVars, extVars, jobVars>>

FetchIdle ==
    /\ clock = 0
    /\ scraper = ScraperInit
    /\ reqTimes = <<>>
    /\ fetch = [outcome |-> None, statuses |-> <<>>, proxies |-> <<>>]
    /\ nFetches = 0

InitSim == SimInit /\ FetchIdle /\ ValIdle /\ ProcIdle /\ XfIdle /\ FpIdle /\ CrawlIdle /\ DedupIdle /\ ExtIdle /\ JobIdle
NextSim == CompareField \/ SimReturn
SpecSim == InitSim /\ [][NextSim]_vars

\* C8: the similarity of a record with itself is exactly 1.0 when all seven
\* weighted fields are populated (the two dicts hold the same populated value
\* in every field).
C8_SelfSimilarityIsOne ==
    (sim.done /\ sim.self) => sim.result = One

C8_Witness ==
    sim.done /\ sim.self /\ sim.total_weight = 100

\* C9: the composite similarity is always in [0,1], and it is 0 (with no
\* division) when no weighted field is present on both sides.
C9_SimilarityInUnitInterval ==
    sim.done =>
        /\ FracLeq(Zero, sim.result) /\ FracLeq(sim.result, One)
        /\ (sim.shared = 0 => sim.total_weight = 0 /\ sim.result = Zero)

C9_Witness ==
    sim.done /\ sim.shared = 0

(***************************************************************************)
(* DataValidator                                                           *)
(***************************************************************************)

\* str.upper()
UpperChar(c) ==
    IF \E i \in 1..26 : Lower[i] = c
    THEN Upper[CHOOSE i \in 1..26 : Lower[i] = c]
    ELSE c
ToUpper(cs) == [i \in 1..Len(cs) |-> UpperChar(cs[i])]
\* str.isalpha()
IsAlpha(cs) ==
    /\ cs # <<>>
    /\ \A i \in 1..Len(cs) : \E j \in 1..26 : cs[i] = Upper[j] \/ cs[i] = Lower[j]

NumV(x) == [t |-> "num", n |-> x.n, d |-> x.d, s |-> <<>>]
\* the number a num value holds
FracOf(v) == [n |-> v.n, d |-> v.d]

\* datetime.now().year
CurrentYear == 2026

required_fields == <<"data_source", "external_id">>
string_fields == <<"external_id", "data_source", "property_type", "description",
                   "street_address", "city", "state", "zip_code", "neighborhood">>
numeric_fields == <<"price", "rent_estimate", "bedrooms", "bathrooms",
                    "square_feet", "lot_size", "year_built", "garage_spaces",
                    "stories", "latitude", "longitude">>
validation_rules ==
    << [field |-> "price", min |-> Frac(1000, 1), max |-> Frac(100000000, 1)],
       [field |-> "rent_estimate", min |-> Frac(100, 1), max |-> Frac(50000, 1)],
       [field |-> "bedrooms", min |-> Frac(0, 1), max |-> Frac(20, 1)],
       [field |-> "bathrooms", min |-> Frac(0, 1), max |-> Frac(20, 1)],
       [field |-> "square_feet", min |-> Frac(100, 1), max |-> Frac(100000, 1)],
       [field |-> "lot_size", min |-> Frac(1, 100), max |-> Frac(1000, 1)],
       [field |-> "year_built", min |-> Frac(1800, 1), max |-> Frac(CurrentYear + 5, 1)] >>

\* the values of the DataSource enum
DataSourceValues ==
    { <<"r", "e", "d", "f", "i", "n">>,
      <<"z", "i", "l", "l", "o", "w">>,
      <<"a", "p", "a", "r", "t", "m", "e", "n", "t", "s", "_", "c", "o", "m">> }

\* one diagnostic: the check that produced it and the field it is about
Diag(kind, field) == [kind |-> kind, field |-> field]
SeqToSet(q) == {q[i] : i \in 1..Len(q)}
\* the sequence of f(x) for the members x of q that satisfy the test
IfThen(b, q) == IF b THEN q ELSE <<>>

\* _validate_required_fields
ValidateRequiredFields(data) ==
    LET Missing(field) ==
            \/ field \notin DOMAIN data
            \/ data[field].t = "None"
            \/ data[field] = Str(<<>>)
        bad == SelectSeq(required_fields, Missing)
    IN  [i \in 1..Len(bad) |-> Diag("required", bad[i])]

\* the cleaning of a numeric text: commas and dollar signs out, then strip()
CleanNumeric(cs) ==
    LET Kept(c) == c \notin {",", "$"}
    IN  Strip(SelectSeq(cs, Kept))

\* _validate_data_types: coerces in place; returns the dict and the errors
\* (the boolean fields pool, fireplace, basement are coerced without any
\* diagnostic and read by no other check: no record here carries them)
ValidateDataTypes(data) ==
    LET IsStringField(k) == k \in SeqToSet(string_fields)
        IsNumericField(k) == k \in SeqToSet(numeric_fields)
        Parsed(k) == ParseFloat(CleanNumeric(data[k].s))
        Uncoercible(k) ==
            /\ k \in DOMAIN data
            /\ data[k].t = "str"
            /\ ~Parsed(k).ok
        Coerced(k) ==
            IF IsStringField(k) /\ data[k].t \notin {"None", "str"}
            THEN Str(PyStr(data[k]))
            ELSE IF IsNumericField(k) /\ data[k].t = "str" /\ Parsed(k).ok
            THEN (IF Parsed(k).nan THEN NaN ELSE NumV(Parsed(k)))
            ELSE data[k]
        bad == SelectSeq(numeric_fields, Uncoercible)
    IN  [ data |-> [k \in DOMAIN data |-> Coerced(k)],
          errors |-> [i \in 1..Len(bad) |-> Diag("not_numeric", bad[i])] ]

\* value < bound and value > bound as Python decides them for a float value;
\* every comparison with nan is False
NumLt(v, bound) == v.t = "num" /\ FracLt(FracOf(v), bound)
NumGt(v, bound) == v.t = "num" /\ FracLt(bound, FracOf(v))

\* _validate_field_values: raised is the TypeError of comparing a str (a
\* numeric field that could not be coerced) with a number
ValidateFieldValues(data) ==
    LET Checked(rule) == rule.field \in DOMAIN data /\ data[rule.field].t # "None"
        Raises(rule) == Checked(rule) /\ data[rule.field].t = "str"
        RangeErrors(rule) ==
            IF ~Checked(rule) THEN <<>>
            ELSE IfThen(NumLt(data[rule.field], rule.min), <<Diag("below_min", rule.field)>>)
                 \o IfThen(NumGt(data[rule.field], rule.max), <<Diag("above_max", rule.field)>>)
        R(i) == RangeErrors(validation_rules[i])
        sourceErrors ==
            IfThen("data_source" \in DOMAIN data
                   /\ ~(data["data_source"].t = "str"
                        /\ data["data_source"].s \in DataSourceValues),
                   <<Diag("enum", "data_source")>>)
        \* PropertyType is an int Enum and the value has been made a str by
        \* _validate_data_types: PropertyType(value) raises ValueError always
        typeErrors ==
            IfThen("property_type" \in DOMAIN data /\ Truthy(data["property_type"]),
                   <<Diag("enum", "property_type")>>)
    IN  [ raised |-> \E i \in 1..Len(validation_rules) : Raises(validation_rules[i]),
          errors |-> R(1) \o R(2) \o R(3) \o R(4) \o R(5) \o R(6) \o R(7)
                     \o sourceErrors \o typeErrors ]

valid_states ==
    { <<"A", "L">>,
      <<"A", "L", "A", "B", "A", "M", "A">>,
      <<"A", "K">>,
      <<"A", "L", "A", "S", "K", "A">>,
      <<"A", "Z">>,
      <<"A", "R", "I", "Z", "O", "N", "A">>,
      <<"A", "R">>,
      <<"A", "R", "K", "A", "N", "S", "A", "S">>,
      <<"C", "A">>,
      <<"C", "A", "L", "I", "F", "O", "R", "N", "I", "A">>,
      <<"C", "O">>,
      <<"C", "O", "L", "O", "R", "A", "D", "O">>,
      <<"C", "T">>,
      <<"C", "O", "N", "N", "E", "C", "T", "I", "C", "U", "T">>,
      <<"D", "E">>,
      <<"D", "E", "L", "A", "W", "A", "R", "E">>,
      <<"F", "L">>,
      <<"F", "L", "O", "R", "I", "D", "A">>,
      <<"G", "A">>,
      <<"G", "E", "O", "R", "G", "I", "A">>,
      <<"H", "I">>,
      <<"H", "A", "W", "A", "I", "I">>,
      <<"I", "D">>,
      <<"I", "D", "A", "H", "O">>,
      <<"I", "L">>,
      <<"I", "L", "L", "I", "N", "O", "I", "S">>,
      <<"I", "N">>,
      <<"I", "N", "D", "I", "A", "N", "A">>,
      <<"I", "A">>,
      <<"I", "O", "W", "A">>,
      <<"K", "S">>,
      <<"K", "A", "N", "S", "A", "S">>,
      <<"K", "Y">>,
      <<"K", "E", "N", "T", "U", "C", "K", "Y">>,
      <<"L", "A">>,
      <<"L", "O", "U", "I", "S", "I", "A", "N", "A">>,
      <<"M", "E">>,
      <<"M", "A", "I", "N", "E">>,
      <<"M", "D">>,
      <<"M", "A", "R", "Y", "L", "A", "N", "D">>,
      <<"M", "A">>,
      <<"M", "A", "S", "S", "A", "C", "H", "U", "S", "E", "T", "T", "S">>,
      <<"M", "I">>,
      <<"M", "I", "C", "H", "I", "G", "A", "N">>,
      <<"M", "N">>,
      <<"M", "I", "N", "N", "E", "S", "O", "T", "A">>,
      <<"M", "S">>,
      <<"M", "I", "S", "S", "I", "S", "S", "I", "P", "P", "I">>,
      <<"M", "O">>,
      <<"M", "I", "S", "S", "O", "U", "R", "I">>,
      <<"M", "T">>,
      <<"M", "O", "N", "T", "A", "N", "A">>,
      <<"N", "E">>,
      <<"N", "E", "B", "R", "A", "S", "K", "A">>,
      <<"N", "V">>,
      <<"N", "E", "V", "A", "D", "A">>,
      <<"N", "H">>,
      <<"N", "E", "W", " ", "H", "A", "M", "P", "S", "H", "I", "R", "E">>,
      <<"N", "J">>,
      <<"N", "E", "W", " ", "J", "E", "R", "S", "E", "Y">>,
      <<"N", "M">>,
      <<"N", "E", "W", " ", "M", "E", "X", "I", "C", "O">>,
      <<"N", "Y">>,
      <<"N", "E", "W", " ", "Y", "O", "R", "K">>,
      <<"N", "C">>,
      <<"N", "O", "R", "T", "H", " ", "C", "A", "R", "O", "L", "I", "N", "A">>,
      <<"N", "D">>,
      <<"N", "O", "R", "T", "H", " ", "D", "A", "K", "O", "T", "A">>,
      <<"O", "H">>,
      <<"O", "H", "I", "O">>,
      <<"O", "K">>,
      <<"O", "K", "L", "A", "H", "O", "M", "A">>,
      <<"O", "R">>,
      <<"O", "R", "E", "G", "O", "N">>,
      <<"P", "A">>,
      <<"P", "E", "N", "N", "S", "Y", "L", "V", "A", "N", "I", "A">>,
      <<"R", "I">>,
      <<"R", "H", "O", "D", "E", " ", "I", "S", "L", "A", "N", "D">>,
      <<"S", "C">>,
      <<"S", "O", "U", "T", "H", " ", "C", "A", "R", "O", "L", "I", "N", "A">>,
      <<"S", "D">>,
      <<"S", "O", "U", "T", "H", " ", "D", "A", "K", "O", "T", "A">>,
      <<"T", "N">>,
      <<"T", "E", "N", "N", "E", "S", "S", "E", "E">>,
      <<"T", "X">>,
      <<"T", "E", "X", "A", "S">>,
      <<"U", "T">>,
      <<"U", "T", "A", "H">>,
      <<"V", "T">>,
      <<"V", "E", "R", "M", "O", "N", "T">>,
      <<"V", "A">>,
      <<"V", "I", "R", "G", "I", "N", "I", "A">>,
      <<"W", "A">>,
      <<"W", "A", "S", "H", "I", "N", "G", "T", "O", "N">>,
      <<"W", "V">>,
      <<"W", "E", "S", "T", " ", "V", "I", "R", "G", "I", "N", "I", "A">>,
      <<"W", "I">>,
      <<"W", "I", "S", "C", "O", "N", "S", "I", "N">>,
      <<"W", "Y">>,
      <<"W", "Y", "O", "M", "I", "N", "G">> }

\* _is_valid_state_name
IsValidStateName(state) == ToUpper(state) \in valid_states

\* re.match(r'^\d{5}(-\d{4})?$', zip_code)
MatchesZip(cs) ==
    LET AllDigits(lo, hi) == \A i \in lo..hi : IsDigit(cs[i])
    IN  \/ Len(cs) = 5 /\ AllDigits(1, 5)
        \/ Len(cs) = 10 /\ AllDigits(1, 5) /\ cs[6] = "-" /\ AllDigits(7, 10)
\* re.search(r'\d{5}', zip_code)
HasFiveDigits(cs) ==
    \E i \in 1..(Len(cs) - 4) : \A j \in i..(i + 4) : IsDigit(cs[j])

\* _validate_address: raised is the TypeError of comparing a str coordinate
ValidateAddress(data) ==
    LET Has(k) == k \in DOMAIN data
        state == ToUpper(Strip(PyStr(data["state"])))
        stateErrors ==
            IfThen(Has("state") /\ Truthy(data["state"])
                   /\ (Len(state) # 2 \/ ~IsAlpha(state))
                   /\ ~IsValidStateName(state),
                   <<Diag("state", "state")>>)
        zip_code == Strip(PyStr(data["zip_code"]))
        zipErrors ==
            IfThen(Has("zip_code") /\ Truthy(data["zip_code"])
                   /\ ~MatchesZip(zip_code) /\ ~HasFiveDigits(zip_code),
                   <<Diag("zip", "zip_code")>>)
        Coordinate(k) == Has(k) /\ data[k].t # "None"
        \* not (-bound <= x <= bound): True for nan
        Outside(k, bound) ==
            ~(data[k].t = "num"
              /\ FracLeq(Frac(0 - bound, 1), FracOf(data[k]))
              /\ FracLeq(FracOf(data[k]), Frac(bound, 1)))
    IN  [ raised |-> \E k \in {"latitude", "longitude"} :
                        Coordinate(k) /\ data[k].t = "str",
          errors |-> stateErrors \o zipErrors
                     \o IfThen(Coordinate("latitude") /\ Outside("latitude", 90),
                               <<Diag("coordinate", "latitude")>>)
                     \o IfThen(Coordinate("longitude") /\ Outside("longitude", 180),
                               <<Diag("coordinate", "longitude")>>) ]

\* _validate_business_rules: raised is the TypeError of arithmetic or of a
\* comparison on a str
ValidateBusinessRules(data) ==
    LET Has(k) == k \in DOMAIN data
        HasAll(ks) == \A k \in ks : Has(k) /\ Truthy(data[k])
        IsText(k) == data[k].t = "str"
        AllNum(ks) == \A k \in ks : data[k].t = "num"
        F(k) == FracOf(data[k])
        ppsf == HasAll({"price", "square_feet", "price_per_sqft"})
        calculated == FracDiv(F("price"), F("square_feet"))
        ppsfErrors ==
            IfThen(ppsf /\ AllNum({"price", "square_feet", "price_per_sqft"})
                   /\ FracLt(Frac(1, 10),
                             FracDiv(FracAbs(FracSub(calculated, F("price_per_sqft"))),
                                     F("price_per_sqft"))),
                   <<Diag("price_per_sqft", "price_per_sqft")>>)
        ratio == Has("bedrooms") /\ Has("bathrooms")
                 /\ Truthy(data["bedrooms"]) /\ Truthy(data["bathrooms"])
        ratioErrors ==
            IfThen(ratio /\ AllNum({"bedrooms", "bathrooms"})
                   /\ FracLt(FracMul(F("bedrooms"), Frac(2, 1)), F("bathrooms")),
                   <<Diag("bed_bath_ratio", "bathrooms")>>)
        space == Has("bedrooms") /\ Has("square_feet")
                 /\ Truthy(data["bedrooms"]) /\ Truthy(data["square_feet"])
        \* max(bedrooms, 1): bedrooms unless 1 > bedrooms
        perBedroom == FracDiv(F("square_feet"),
                              IF FracLt(F("bedrooms"), One) THEN One ELSE F("bedrooms"))
        spaceNum == space /\ AllNum({"bedrooms", "square_feet"})
        year == Has("year_built") /\ Truthy(data["year_built"])
    IN  [ raised |-> \/ ppsf /\ \E k \in {"price", "square_feet", "price_per_sqft"} : IsText(k)
                     \/ ratio /\ \E k \in {"bedrooms", "bathrooms"} : IsText(k)
                     \/ space /\ \E k \in {"bedrooms", "square_feet"} : IsText(k)
                     \/ year /\ IsText("year_built"),
          errors |-> ppsfErrors \o ratioErrors
                     \o IfThen(spaceNum /\ FracLt(perBedroom, Frac(70, 1)),
                               <<Diag("small_bedroom", "square_feet")>>)
                     \o IfThen(spaceNum /\ FracLt(Frac(2000, 1), perBedroom),
                               <<Diag("large_bedroom", "square_feet")>>)
                     \o IfThen(year /\ NumGt(data["year_built"], Frac(CurrentYear, 1)),
                               <<Diag("future_year", "year_built")>>) ]

\* the list the except clause of validate_property_data returns
ValidationException == <<Diag("exception", "")>>

\* validate_property_data: (is_valid, errors)
ValidatePropertyData(data) ==
    LET Outcome(types) ==
            LET required == ValidateRequiredFields(data)
                values == ValidateFieldValues(types.data)
                address == ValidateAddress(types.data)
                business == ValidateBusinessRules(types.data)
                errors == required \o types.errors \o values.errors
                          \o address.errors \o business.errors
            IN  IF values.raised \/ address.raised \/ business.raised
                THEN [is_valid |-> FALSE, errors |-> ValidationException]
                ELSE [is_valid |-> errors = <<>>, errors |-> errors]
    IN  TheOne({Outcome(types) : types \in {ValidateDataTypes(data)}})

\* the records handed to the validator: per field a few values, the key
\* left out of the dict where the value is Absent
Absent == [t |-> "absent", n |-> 0, d |-> 1, s |-> <<>>]
MkDict(f) == [k \in {x \in DOMAIN f : f[x] # Absent} |-> f[k]]
CoreRecords ==
    { MkDict([data_source |-> ds, external_id |-> ei, price |-> pr, bedrooms |-> bd,
              bathrooms |-> ba, state |-> st, zip_code |-> zp, latitude |-> la]) :
        ds \in {Absent, Str(<<"z", "i", "l", "l", "o", "w">>), Str(<<"e", "b", "a", "y">>)},
        ei \in {Absent, Str(<<"a", "1">>)},
        pr \in {Absent, Num(450000), Str(<<"$", "4", "5", "0", ",", "0", "0", "0">>), Str(<<"a", "b", "c">>)},
        bd \in {Absent, Num(3), Num(25), Str(<<"3", " ", "b", "e", "d">>)},
        ba \in {Absent, Num(9)},
        st \in {Absent, Str(<<"t", "x">>), Str(<<"T", "1">>)},
        zp \in {Str(<<"7", "8", "7", "0", "1", "-", "1", "2", "3", "4">>), Str(<<"7", "8", "7">>)},
        la \in {Absent, Num(100), Str(<<"n", "/", "a">>)} }
DetailRecords ==
    { MkDict([data_source |-> Str(<<"r", "e", "d", "f", "i", "n">>), external_id |-> Num(17),
              price |-> Num(450000), bedrooms |-> bd, square_feet |-> sq,
              price_per_sqft |-> pp, year_built |-> yb, property_type |-> pt,
              state |-> Str(<<"T", "e", "x", "a", "s">>)]) :
        bd \in {Num(3), Num(0)},
        sq \in {Absent, Num(1500), Num(150), NaN},
        pp \in {Absent, Num(300), Num(100), Str(<<"x">>)},
        yb \in {Absent, Num(CurrentYear + 2), Num(1700)},
        pt \in {Absent, Str(<<"h", "o", "u", "s", "e">>)} }
ValRecords == CoreRecords \cup DetailRecords

CheckGroups == {"required", "types", "values", "address", "business"}

\* entry of validate_property_data: errors = []
ValInit ==
    /\ vrec \in ValRecords
    /\ vout = [pc |-> "required", errors |-> <<>>, ran |-> {},
               is_valid |-> FALSE, result |-> <<>>]

\* errors.extend(self._validate_required_fields(property_data))
ValRequired ==
    /\ vout.pc = "required"
    /\ vout' = [vout EXCEPT !.pc = "types",
                            !.errors = @ \o ValidateRequiredFields(vrec),
                            !.ran = @ \cup {"required"}]
    /\ UNCHANGED <<vrec, fetchVars, simVars, procVars, xfVars, fpVars, crawlVars, dedupVars, extVars, jobVars>>

\* errors.extend(self._validate_data_types(property_data))
ValTypes ==
    /\ vout.pc = "types"
    /\ vrec' = ValidateDataTypes(vrec).data
    /\ vout' = [vout EXCEPT !.pc = "values",
                            !.errors = @ \o ValidateDataTypes(vrec).errors,
                            !.ran = @ \cup {"types"}]
    /\ UNCHANGED <<fetchVars, simVars, procVars, xfVars, fpVars, crawlVars, dedupVars, extVars, jobVars>>

\* one later check group: its errors are appended, or its exception leaves
\* the try block
ValGroup(group, outcome, next) ==
    /\ vout.pc = group
    /\ vout' = IF outcome.raised
               THEN [vout EXCEPT !.pc = "except"]
               ELSE [vout EXCEPT !.pc = next,
                                 !.errors = @ \o outcome.errors,
                                 !.ran = @ \cup {group}]
    /\ UNCHANGED <<vrec, fetchVars, simVars, procVars, xfVars, fpVars, crawlVars, dedupVars, extVars, jobVars>>

\* errors.extend(self._validate_field_values(property_data))
ValValues == ValGroup("values", ValidateFieldValues(vrec), "address")
\* errors.extend(self._validate_address(property_data))
ValAddress == ValGroup("address", ValidateAddress(vrec), "business")
\* errors.extend(self._validate_business_rules(property_data))
ValBusiness == ValGroup("business", ValidateBusinessRules(vrec), "return")

\* is_valid = len(errors) == 0; return is_valid, errors
ValReturn ==
    /\ vout.pc = "return"
    /\ vout' = [vout EXCEPT !.pc = "done",
                            !.is_valid = (vout.errors = <<>>),
                            !.result = vout.errors]
    /\ UNCHANGED <<vrec, fetchVars, simVars, procVars, xfVars, fpVars, crawlVars, dedupVars, extVars, jobVars>>

\* except Exception: return False, ["Validation exception: ..."]
ValExcept ==
    /\ vout.pc = "except"
    /\ vout' = [vout EXCEPT !.pc = "done",
                            !.is_valid = FALSE,
                            !.result = ValidationException]
    /\ UNCHANGED <<vrec, fetchVars, simVars, procVars, xfVars, fpVars, crawlVars, dedupVars, extVars, jobVars>>

InitValidate == ValInit /\ FetchIdle /\ SimIdle /\ ProcIdle /\ XfIdle /\ FpIdle /\ CrawlIdle /\ DedupIdle /\ ExtIdle /\ JobIdle
NextValidate ==
    \/ ValRequired
    \/ ValTypes
    \/ ValValues
    \/ ValAddress
    \/ ValBusiness
    \/ ValReturn
    \/ ValExcept
SpecValidate == InitValidate /\ [][NextValidate]_vars

\* C10: validate_property_data never short-circuits: whenever it has
\* returned, all five check groups have run and every diagnostic a check
\* group produced (a numeric field that cannot be coerced included) is in
\* the returned list.
C10_NeverShortCircuits ==
    vout.pc = "done" =>
        /\ vout.ran = CheckGroups
        /\ SeqToSet(vout.errors) \subseteq SeqToSet(vout.result)

(***************************************************************************)
(* DataTransformer.  The rows transformed here carry identifiers, a price, *)
(* a city, a state, a zip code and a year: no free text, coordinates,      *)
(* boolean columns or features, so that _extract_property_details,         *)
(* _clean_coordinates, _standardize_booleans and _standardize_features     *)
(* return their argument.                                                  *)
(***************************************************************************)

\* the k-th smallest member of a set of numbers
Nth(S, k) == CHOOSE x \in S : Cardinality({y \in S : y < x}) = k - 1
\* the characters of cs at the positions I, in order
CharsAt(cs, I) == [k \in 1..Cardinality(I) |-> cs[Nth(I, k)]]
\* sub in text
Contains(text, sub) ==
    \E i \in 1..(Len(text) - Len(sub) + 1) : SubSeq(text, i, i + Len(sub) - 1) = sub
\* text.split(sub)[0]
BeforeFirst(text, sub) ==
    IF ~Contains(text, sub) THEN text
    ELSE LET at == Nth({i \in 1..(Len(text) - Len(sub) + 1) :
                          SubSeq(text, i, i + Len(sub) - 1) = sub}, 1)
         IN  SubSeq(text, 1, at - 1)
\* text.replace(c, '')
Without(text, chars) ==
    LET Kept(c) == c \notin chars
    IN  SelectSeq(text, Kept)

\* str.split()
Split(cs) ==
    LET starts == {i \in 1..Len(cs) : ~IsSpace(cs[i]) /\ (i = 1 \/ IsSpace(cs[i - 1]))}
        ends == {i \in 1..Len(cs) : ~IsSpace(cs[i]) /\ (i = Len(cs) \/ IsSpace(cs[i + 1]))}
    IN  [k \in 1..Cardinality(starts) |-> SubSeq(cs, Nth(starts, k), Nth(ends, k))]
\* ' '.join(words)
RECURSIVE Join(_)
Join(words) ==
    IF words = <<>> THEN <<>>
    ELSE IF Len(words) = 1 THEN words[1]
    ELSE words[1] \o <<" ">> \o Join(Tail(words))
\* str.capitalize()
Capitalize(w) == [i \in 1..Len(w) |-> IF i = 1 THEN UpperChar(w[i]) ELSE LowerChar(w[i])]

lowercase_words ==
    { <<"o", "f">>, <<"t", "h", "e">>, <<"a", "n", "d">>, <<"o", "r">>, <<"b", "u", "t">>, <<"i", "n">>, <<"o", "n">>, <<"a", "t">>, <<"t", "o">>, <<"f", "o", "r">>, <<"w", "i", "t", "h">> }
uppercase_words ==
    { <<"N", "E">>, <<"N", "W">>, <<"S", "E">>, <<"S", "W">>, <<"N">>, <<"S">>, <<"E">>, <<"W">>, <<"U", "S">>, <<"U", "S", "A">> }

\* _title_case_address
TitleCaseAddress(address) ==
    LET words == Split(address)
        Cased(i) ==
            IF ToUpper(words[i]) \in uppercase_words THEN ToUpper(words[i])
            ELSE IF i > 1 /\ ToLower(words[i]) \in lowercase_words THEN ToLower(words[i])
            ELSE Capitalize(words[i])
    IN  Join([i \in 1..Len(words) |-> Cased(i)])

\* re.sub(r'\s+', ' ', text): the blank is the only whitespace of the texts
CollapseSpaces(cs) ==
    CharsAt(cs, {i \in 1..Len(cs) : ~(IsSpace(cs[i]) /\ i > 1 /\ IsSpace(cs[i - 1]))})
\* re.sub(r'<[^>]+>', '', text)
RECURSIVE RemoveTags(_)
RemoveTags(cs) ==
    IF cs = <<>> THEN <<>>
    ELSE LET closes == {j \in 2..Len(cs) : cs[j] = ">"}
             close == Nth(closes, 1)
         IN  IF Head(cs) = "<" /\ closes # {} /\ close >= 3
             THEN RemoveTags(SubSeq(cs, close + 1, Len(cs)))
             ELSE <<Head(cs)>> \o RemoveTags(Tail(cs))

text_fields == <<"description", "street_address", "city", "neighborhood", "county">>

\* _clean_text_fields
CleanTextFields(data) ==
    LET Cleaned(field) ==
            LET text == RemoveTags(CollapseSpaces(Strip(PyStr(data[field]))))
            IN  IF field # "description" THEN TitleCaseAddress(text) ELSE text
    IN  [k \in DOMAIN data |->
            IF k \in SeqToSet(text_fields) /\ Truthy(data[k])
            THEN Str(Cleaned(k)) ELSE data[k]]

\* an Optional[float]: some = FALSE is None
NoFloat == [some |-> FALSE, nan |-> FALSE, n |-> 0, d |-> 1]
SomeFloat(f) == [some |-> TRUE, nan |-> f.nan, n |-> f.n, d |-> f.d]
Scaled(f, k) ==
    IF f.nan THEN [some |-> TRUE, nan |-> TRUE, n |-> 0, d |-> 1]
    ELSE LET x == Frac(f.n * k, f.d)
         IN  [some |-> TRUE, nan |-> FALSE, n |-> x.n, d |-> x.d]
\* the Python value of a float that is there
FloatValue(f) == IF f.nan THEN NaN ELSE NumV(f)

\* _parse_price
ParsePrice(price_text) ==
    LET c0 == Strip(Without(price_text, {"$", ","}))
        c1 == IF Contains(c0, <<"-">>) THEN Strip(BeforeFirst(c0, <<"-">>)) ELSE c0
        cleaned == IF Contains(ToLower(c1), <<"p", "e", "r">>)
                   THEN Strip(BeforeFirst(c1, <<"p", "e", "r">>)) ELSE c1
        last == IF cleaned = <<>> THEN "" ELSE cleaned[Len(cleaned)]
        stem == ParseFloat(SubSeq(cleaned, 1, Len(cleaned) - 1))
        whole == ParseFloat(cleaned)
    IN  IF price_text = <<>> THEN NoFloat
        ELSE IF last \in {"K", "k"} /\ stem.ok THEN Scaled(stem, 1000)
        ELSE IF last \in {"M", "m"} /\ stem.ok THEN Scaled(stem, 1000000)
        ELSE IF whole.ok THEN SomeFloat(whole)
        ELSE NoFloat

\* the first of price_patterns, r'\$?([\d,]+\.?\d*)', searched in the text:
\* group 1 starts at the first digit or comma.  The second pattern is tried
\* only where group 1 holds no digit, which no text here does.
PricePatternGroup(text) ==
    LET IsNum(c) == IsDigit(c) \/ c = ","
        starts == {i \in 1..Len(text) : IsNum(text[i])}
        from == Nth(starts, 1)
        RunEnd(i, Member(_)) ==
            Nth({j \in i..(Len(text) + 1) : j > Len(text) \/ ~Member(text[j])}, 1) - 1
        intEnd == RunEnd(from, IsNum)
        pointed == intEnd < Len(text) /\ text[intEnd + 1] = "."
        end == IF pointed THEN RunEnd(intEnd + 2, IsDigit) ELSE intEnd
    IN  IF starts = {} THEN [found |-> FALSE, group |-> <<>>]
        ELSE [found |-> TRUE, group |-> SubSeq(text, from, end)]

price_fields == <<"price", "rent_estimate", "list_price">>

\* _standardize_prices, for one field
StandardizePrice(v, field) ==
    LET thousands(x) == IF FracLt(x, Frac(10000, 1)) /\ field # "rent_estimate"
                        THEN FracMul(x, Frac(1000, 1)) ELSE x
        price_text == PyStr(v)
        parsed == ParsePrice(price_text)
        matched == PricePatternGroup(price_text)
        price == ParseFloat(Without(matched.group, {","}))
    IN  CASE v.t = "None" -> v
          [] v.t = "nan" -> v
          [] v.t = "num" -> NumV(thousands(FracOf(v)))
          [] OTHER ->
                IF parsed.some /\ (parsed.nan \/ parsed.n # 0) THEN FloatValue(parsed)
                ELSE IF matched.found /\ price.ok
                THEN NumV(thousands([n |-> price.n, d |-> price.d]))
                ELSE v
StandardizePrices(data) ==
    [k \in DOMAIN data |->
        IF k \in SeqToSet(price_fields) THEN StandardizePrice(data[k], k) ELSE data[k]]

state_mapping ==
    { <<<<"A", "L", "A", "B", "A", "M", "A">>, <<"A", "L">>>>,
      <<<<"A", "L", "A", "S", "K", "A">>, <<"A", "K">>>>,
      <<<<"A", "R", "I", "Z", "O", "N", "A">>, <<"A", "Z">>>>,
      <<<<"A", "R", "K", "A", "N", "S", "A", "S">>, <<"A", "R">>>>,
      <<<<"C", "A", "L", "I", "F", "O", "R", "N", "I", "A">>, <<"C", "A">>>>,
      <<<<"C", "O", "L", "O", "R", "A", "D", "O">>, <<"C", "O">>>>,
      <<<<"C", "O", "N", "N", "E", "C", "T", "I", "C", "U", "T">>, <<"C", "T">>>>,
      <<<<"D", "E", "L", "A", "W", "A", "R", "E">>, <<"D", "E">>>>,
      <<<<"F", "L", "O", "R", "I", "D", "A">>, <<"F", "L">>>>,
      <<<<"G", "E", "O", "R", "G", "I", "A">>, <<"G", "A">>>>,
      <<<<"H", "A", "W", "A", "I", "I">>, <<"H", "I">>>>,
      <<<<"I", "D", "A", "H", "O">>, <<"I", "D">>>>,
      <<<<"I", "L", "L", "I", "N", "O", "I", "S">>, <<"I", "L">>>>,
      <<<<"I", "N", "D", "I", "A", "N", "A">>, <<"I", "N">>>>,
      <<<<"I", "O", "W", "A">>, <<"I", "A">>>>,
      <<<<"K", "A", "N", "S", "A", "S">>, <<"K", "S">>>>,
      <<<<"K", "E", "N", "T", "U", "C", "K", "Y">>, <<"K", "Y">>>>,
      <<<<"L", "O", "U", "I", "S", "I", "A", "N", "A">>, <<"L", "A">>>>,
      <<<<"M", "A", "I", "N", "E">>, <<"M", "E">>>>,
      <<<<"M", "A", "R", "Y", "L", "A", "N", "D">>, <<"M", "D">>>>,
      <<<<"M", "A", "S", "S", "A", "C", "H", "U", "S", "E", "T", "T", "S">>, <<"M", "A">>>>,
      <<<<"M", "I", "C", "H", "I", "G", "A", "N">>, <<"M", "I">>>>,
      <<<<"M", "I", "N", "N", "E", "S", "O", "T", "A">>, <<"M", "N">>>>,
      <<<<"M", "I", "S", "S", "I", "S", "S", "I", "P", "P", "I">>, <<"M", "S">>>>,
      <<<<"M", "I", "S", "S", "O", "U", "R", "I">>, <<"M", "O">>>>,
      <<<<"M", "O", "N", "T", "A", "N", "A">>, <<"M", "T">>>>,
      <<<<"N", "E", "B", "R", "A", "S", "K", "A">>, <<"N", "E">>>>,
      <<<<"N", "E", "V", "A", "D", "A">>, <<"N", "V">>>>,
      <<<<"N", "E", "W", " ", "H", "A", "M", "P", "S", "H", "I", "R", "E">>, <<"N", "H">>>>,
      <<<<"N", "E", "W", " ", "J", "E", "R", "S", "E", "Y">>, <<"N", "J">>>>,
      <<<<"N", "E", "W", " ", "M", "E", "X", "I", "C", "O">>, <<"N", "M">>>>,
      <<<<"N", "E", "W", " ", "Y", "O", "R", "K">>, <<"N", "Y">>>>,
      <<<<"N", "O", "R", "T", "H", " ", "C", "A", "R", "O", "L", "I", "N", "A">>, <<"N", "C">>>>,
      <<<<"N", "O", "R", "T", "H", " ", "D", "A", "K", "O", "T", "A">>, <<"N", "D">>>>,
      <<<<"O", "H", "I", "O">>, <<"O", "H">>>>,
      <<<<"O", "K", "L", "A", "H", "O", "M", "A">>, <<"O", "K">>>>,
      <<<<"O", "R", "E", "G", "O", "N">>, <<"O", "R">>>>,
      <<<<"P", "E", "N", "N", "S", "Y", "L", "V", "A", "N", "I", "A">>, <<"P", "A">>>>,
      <<<<"R", "H", "O", "D", "E", " ", "I", "S", "L", "A", "N", "D">>, <<"R", "I">>>>,
      <<<<"S", "O", "U", "T", "H", " ", "C", "A", "R", "O", "L", "I", "N", "A">>, <<"S", "C">>>>,
      <<<<"S", "O", "U", "T", "H", " ", "D", "A", "K", "O", "T", "A">>, <<"S", "D">>>>,
      <<<<"T", "E", "N", "N", "E", "S", "S", "E", "E">>, <<"T", "N">>>>,
      <<<<"T", "E", "X", "A", "S">>, <<"T", "X">>>>,
      <<<<"U", "T", "A", "H">>, <<"U", "T">>>>,
      <<<<"V", "E", "R", "M", "O", "N", "T">>, <<"V", "T">>>>,
      <<<<"V", "I", "R", "G", "I", "N", "I", "A">>, <<"V", "A">>>>,
      <<<<"W", "A", "S", "H", "I", "N", "G", "T", "O", "N">>, <<"W", "A">>>>,
      <<<<"W", "E", "S", "T", " ", "V", "I", "R", "G", "I", "N", "I", "A">>, <<"W", "V">>>>,
      <<<<"W", "I", "S", "C", "O", "N", "S", "I", "N">>, <<"W", "I">>>>,
      <<<<"W", "Y", "O", "M", "I", "N", "G">>, <<"W", "Y">>>> }

\* _standardize_state
StandardizeState(state) ==
    LET name == ToUpper(Strip(state))
    IN  IF \E m \in state_mapping : m[1] = name
        THEN (CHOOSE m \in state_mapping : m[1] = name)[2]
        ELSE name

\* re.search(r'(\d{5})', zip_code).group(1)
FirstFiveDigits(cs) ==
    LET at == Nth({i \in 1..(Len(cs) - 4) : \A j \in i..(i + 4) : IsDigit(cs[j])}, 1)
    IN  SubSeq(cs, at, at + 4)
\* DataTransformer._clean_zip_code
CleanZipCode(zip_code) ==
    IF HasFiveDigits(zip_code) THEN FirstFiveDigits(zip_code) ELSE Strip(zip_code)

abbreviations ==
    { <<<<"s", "t", "r", "e", "e", "t">>, <<"S", "t">>>>,
      <<<<"a", "v", "e", "n", "u", "e">>, <<"A", "v", "e">>>>,
      <<<<"b", "o", "u", "l", "e", "v", "a", "r", "d">>, <<"B", "l", "v", "d">>>>,
      <<<<"d", "r", "i", "v", "e">>, <<"D", "r">>>>,
      <<<<"r", "o", "a", "d">>, <<"R", "d">>>>,
      <<<<"l", "a", "n", "e">>, <<"L", "n">>>>,
      <<<<"c", "i", "r", "c", "l", "e">>, <<"C", "i", "r">>>>,
      <<<<"c", "o", "u", "r", "t">>, <<"C", "t">>>>,
      <<<<"p", "l", "a", "c", "e">>, <<"P", "l">>>>,
      <<<<"t", "e", "r", "r", "a", "c", "e">>, <<"T", "e", "r">>>>,
      <<<<"p", "a", "r", "k", "w", "a", "y">>, <<"P", "k", "w", "y">>>>,
      <<<<"n", "o", "r", "t", "h">>, <<"N">>>>,
      <<<<"s", "o", "u", "t", "h">>, <<"S">>>>,
      <<<<"e", "a", "s", "t">>, <<"E">>>>,
      <<<<"w", "e", "s", "t">>, <<"W">>>>,
      <<<<"n", "o", "r", "t", "h", "e", "a", "s", "t">>, <<"N", "E">>>>,
      <<<<"n", "o", "r", "t", "h", "w", "e", "s", "t">>, <<"N", "W">>>>,
      <<<<"s", "o", "u", "t", "h", "e", "a", "s", "t">>, <<"S", "E">>>>,
      <<<<"s", "o", "u", "t", "h", "w", "e", "s", "t">>, <<"S", "W">>>> }

\* re.sub(r'\bword\b', abbreviation, address, flags=re.IGNORECASE) for every
\* entry of abbreviations: the addresses hold letters, digits and blanks, so
\* a word is a run of characters between blanks
RECURSIVE AbbreviateWords(_)
AbbreviateWords(cs) ==
    IF cs = <<>> THEN <<>>
    ELSE IF IsSpace(cs[1]) THEN <<cs[1]>> \o AbbreviateWords(Tail(cs))
    ELSE LET end == Nth({j \in 1..Len(cs) : j = Len(cs) \/ IsSpace(cs[j + 1])}, 1)
             word == SubSeq(cs, 1, end)
             hits == {pair \in abbreviations : pair[1] = ToLower(word)}
         IN  (IF hits = {} THEN word ELSE (CHOOSE pair \in hits : TRUE)[2])
             \o AbbreviateWords(SubSeq(cs, end + 1, Len(cs)))

\* _standardize_street_address
StandardizeStreetAddress(address) == Strip(AbbreviateWords(address))

\* _standardize_address
StandardizeAddress(data) ==
    [k \in DOMAIN data |->
        IF k = "state" /\ Truthy(data[k]) THEN Str(StandardizeState(PyStr(data[k])))
        ELSE IF k = "zip_code" /\ Truthy(data[k]) THEN Str(CleanZipCode(PyStr(data[k])))
        ELSE IF k = "street_address" /\ Truthy(data[k])
             THEN Str(StandardizeStreetAddress(PyStr(data[k])))
        ELSE data[k]]

\* _generate_identifiers: the text the digest is computed from stands for
\* hashlib.md5(...).hexdigest()[:12]
GenerateIdentifiers(data) ==
    LET Part(k) == IF k \in DOMAIN data THEN PyStr(data[k]) ELSE <<>>
        address_string ==
            Strip(ToLower(Part("street_address") \o <<"|">> \o Part("city") \o <<"|">>
                          \o Part("state") \o <<"|">> \o Part("zip_code")))
    IN  Put(data, "address_hash", Str(address_string))

\* transform_property_data
TransformPropertyData(property_data) ==
    TheOne({GenerateIdentifiers(addressed) :
              addressed \in {StandardizeAddress(priced) :
                priced \in {StandardizePrices(cleaned) :
                  cleaned \in {CleanTextFields(property_data)}}}})

(***************************************************************************)
(* DeduplicationEngine.is_duplicate, against the properties table          *)
(***************************************************************************)

\* column ILIKE '%pattern%'
ILike(column, pattern) ==
    column.t = "str" /\ Contains(ToLower(column.s), ToLower(PyStr(pattern)))

\* the lookup is made where external_id and data_source are there, the
\* search where city and state are
ExactQueried(property_data) ==
    Truthy(Get(property_data, "external_id")) /\ Truthy(Get(property_data, "data_source"))
SearchQueried(property_data) ==
    Truthy(Get(property_data, "city")) /\ Truthy(Get(property_data, "state"))

\* _is_exact_duplicate: PropertyCRUD.get_by_external_id(...) is not None
IsExactDuplicate(property_data, store) ==
    /\ ExactQueried(property_data)
    /\ \E p \in store : /\ p.external_id = Get(property_data, "external_id")
                       /\ p.data_source = Get(property_data, "data_source")

\* _find_similar_properties: PropertyCRUD.search by city, state and zip code,
\* each candidate as the dict the comparison reads
FindSimilarProperties(property_data, store) ==
    LET city == Get(property_data, "city")
        state == Get(property_data, "state")
        zip_code == Get(property_data, "zip_code")
    IN  IF ~SearchQueried(property_data) THEN {}
        ELSE {p \in store :
                /\ ILike(p.city, city)
                /\ ILike(p.state, state)
                /\ (Truthy(zip_code) => p.zip_code = zip_code)}

\* is_duplicate.  exactOk and searchOk say whether the two queries came back;
\* a failed lookup leaves through the except clause (False), a failed search
\* is logged and yields no candidate.
IsDuplicate(property_data, store, exactOk, searchOk) ==
    /\ ExactQueried(property_data) => exactOk
    /\ \/ IsExactDuplicate(property_data, store)
       \/ /\ searchOk
          /\ \E p \in FindSimilarProperties(property_data, store) :
                FracLeq(similarity_threshold, CalculateSimilarity(property_data, p))

\* logger.error in is_duplicate or in _find_similar_properties: a query that
\* was made did not come back
CheckFailed(property_data, store, exactOk, searchOk) ==
    \/ ExactQueried(property_data) /\ ~exactOk
    \/ /\ ~IsExactDuplicate(property_data, store)
       /\ SearchQueried(property_data)
       /\ ~searchOk

(***************************************************************************)
(* DataProcessor.process_scraped_data                                      *)
(***************************************************************************)

\* pd.DataFrame(list of dicts): the columns are the keys of all the dicts,
\* a cell whose dict has no such key holds nan
EmptyFrame == [cols |-> {}, rows |-> <<>>]
DataFrame(dicts) ==
    LET cols == UNION {DOMAIN dicts[i] : i \in 1..Len(dicts)}
    IN  [ cols |-> cols,
          rows |-> [i \in 1..Len(dicts) |->
                      [k \in cols |-> IF k \in DOMAIN dicts[i] THEN dicts[i][k] ELSE NaN]] ]
\* df.empty: one of the axes has length 0
IsEmpty(df) == df.cols = {} \/ df.rows = <<>>
\* pd.isna(v)
IsNa(v) == v.t \in {"None", "nan"}

\* one entry of results['errors']: the row it is about (-1: the batch)
RowError(idx, diag) == [row |-> idx, diag |-> diag]
ProcessingError == RowError(0 - 1, Diag("processing", ""))

\* _validate_data without its filter: every row passes
ValidateData_AcceptsAll(df) == [valid_df |-> df, validation_errors |-> <<>>]
\* _validate_data: the rows that pass, and the errors of the others.  The
\* validator works on row.to_dict(), a copy: the frame keeps the raw cells.
ValidateData(df) ==
    LET Outcome(checked) ==
            LET valid_indices == {i \in 1..Len(df.rows) : checked[i].is_valid}
                RowErrors(i) ==
                    IF checked[i].is_valid THEN <<>>
                    ELSE [j \in 1..Len(checked[i].errors) |->
                            RowError(i - 1, checked[i].errors[j])]
                RECURSIVE ErrorsFrom(_)
                ErrorsFrom(i) ==
                    IF i > Len(df.rows) THEN <<>> ELSE RowErrors(i) \o ErrorsFrom(i + 1)
            IN  [ valid_df |-> IF valid_indices = {} THEN EmptyFrame
                               ELSE [cols |-> df.cols,
                                     rows |-> CharsAt(df.rows, valid_indices)],
                  validation_errors |-> ErrorsFrom(1) ]
    IN  TheOne({Outcome(checked) :
                  checked \in {[i \in 1..Len(df.rows) |-> ValidatePropertyData(df.rows[i])]}})

\* int(x): truncation towards zero
Trunc(x) == IF x.n < 0 THEN 0 - ((0 - x.n) \div x.d) ELSE x.n \div x.d

\* lambda x: int(x * 100) if x and x < 100000 else x
ToCents(x) ==
    IF x.t = "num" /\ x.n # 0 /\ FracLt(FracOf(x), Frac(100000, 1))
    THEN Num(Trunc(FracMul(FracOf(x), Frac(100, 1))))
    ELSE x
\* x < 100000 on a non-empty str is a TypeError
ToCentsRaises(x) == x.t = "str" /\ x.s # <<>>

\* DataProcessor._standardize_state
ProcStandardizeState(state) ==
    IF ~Truthy(state) \/ IsNa(state) THEN Str(<<>>)
    ELSE Str(StandardizeState(PyStr(state)))
\* DataProcessor._clean_zip_code
ProcCleanZipCode(zip_code) ==
    IF ~Truthy(zip_code) \/ IsNa(zip_code) THEN Str(<<>>)
    ELSE LET text == Strip(PyStr(zip_code))
         IN  Str(IF HasFiveDigits(text) THEN FirstFiveDigits(text) ELSE text)

\* datetime.utcnow() at time now: the datetime, written by its seconds
Timestamp(now) == Str(NatToStr(now))

\* (df['price'] / 100) / df['square_feet'] where both are there and the area
\* is positive, else nan
PricePerSqft(row) ==
    IF row["price"].t = "num" /\ row["square_feet"].t = "num" /\ row["square_feet"].n > 0
    THEN NumV(FracDiv(FracDiv(FracOf(row["price"]), Frac(100, 1)), FracOf(row["square_feet"])))
    ELSE NaN
\* arithmetic or an ordering on a column that holds a str raises TypeError
HoldsText(df, col) ==
    col \in df.cols /\ \E i \in 1..Len(df.rows) : df.rows[i][col].t = "str"

\* _apply_bulk_transformations
ApplyBulkTransformations(df, now) ==
    LET perSqft == {"price", "square_feet"} \subseteq df.cols /\ "price_per_sqft" \notin df.cols
        cols == df.cols \cup {"scraped_at", "processed_at"}
                \cup (IF perSqft THEN {"price_per_sqft"} ELSE {})
        Cell(row, k) ==
            CASE k \in {"price", "rent_estimate"} -> ToCents(row[k])
              [] k = "price_per_sqft" /\ perSqft -> PricePerSqft([row EXCEPT !["price"] = ToCents(@)])
              [] k = "state" -> ProcStandardizeState(row[k])
              [] k = "zip_code" -> ProcCleanZipCode(row[k])
              [] k \in {"scraped_at", "processed_at"} -> Timestamp(now)
              [] OTHER -> row[k]
    IN  [ raised |-> \/ \E i \in 1..Len(df.rows) : \E k \in {"price", "rent_estimate"} \cap df.cols :
                            ToCentsRaises(df.rows[i][k])
                     \/ perSqft /\ HoldsText(df, "square_feet"),
          df |-> [cols |-> cols,
                  rows |-> [i \in 1..Len(df.rows) |-> [k \in cols |-> Cell(df.rows[i], k)]]] ]

\* _transform_data: each row through the transformer, the values of the
\* keys that are columns written back, then the bulk transformations (now
\* is the time of the call)
TransformData(df, now) ==
    LET Row(i) ==
            TheOne({[k \in df.cols |-> transformed_data[k]] :
                      transformed_data \in {TransformPropertyData(df.rows[i])}})
    IN  TheOne({ApplyBulkTransformations([cols |-> df.cols, rows |-> rows], now) :
                  rows \in {[i \in 1..Len(df.rows) |-> Row(i)]}})

\* pd.DataFrame(unique_properties) if unique_properties else pd.DataFrame()
UniqueFrame(unique_properties) ==
    IF unique_properties = <<>> THEN EmptyFrame ELSE DataFrame(unique_properties)

\* Series.median() of the prices of the rows of one city, nan left out
FracSorted(a, b) == FracLeq(a, b)
Median(xs) ==
    LET sorted == SortSeq(xs, FracSorted)
        mid == (Len(xs) + 1) \div 2
    IN  IF Len(xs) % 2 = 1 THEN sorted[mid]
        ELSE FracDiv(FracAdd(sorted[mid], sorted[mid + 1]), Frac(2, 1))
CityMedianPrice(df, city) ==
    LET members == {i \in 1..Len(df.rows) :
                      df.rows[i]["city"] = city /\ df.rows[i]["price"].t = "num"}
        prices == [k \in 1..Cardinality(members) |-> FracOf(df.rows[Nth(members, k)]["price"])]
    IN  IF IsNa(city) \/ members = {} THEN NaN ELSE NumV(Median(prices))

\* _enrich_data: _calculate_property_metrics, _add_market_analysis and the
\* placeholder _geocode_addresses
EnrichData(df) ==
    LET perSqft == {"price", "square_feet"} \subseteq df.cols
        yield == {"price", "rent_estimate"} \subseteq df.cols
        age == "year_built" \in df.cols
        market == {"city", "price"} \subseteq df.cols
        cols == df.cols
                \cup (IF perSqft THEN {"calculated_price_per_sqft"} ELSE {})
                \cup (IF yield THEN {"estimated_rental_yield"} ELSE {})
                \cup (IF age THEN {"property_age"} ELSE {})
                \cup (IF market THEN {"city_median_price", "price_vs_market"} ELSE {})
        RentalYield(row) ==
            IF row["price"].t = "num" /\ row["rent_estimate"].t = "num" /\ row["price"].n > 0
            THEN NumV(FracMul(FracDiv(FracMul(FracDiv(FracOf(row["rent_estimate"]), Frac(100, 1)),
                                              Frac(12, 1)),
                                      FracDiv(FracOf(row["price"]), Frac(100, 1))),
                              Frac(100, 1)))
            ELSE NaN
        PropertyAge(row) ==
            IF row["year_built"].t = "num"
            THEN NumV(FracSub(Frac(CurrentYear, 1), FracOf(row["year_built"])))
            ELSE NaN
        PriceVsMarket(row) ==
            LET median == CityMedianPrice(df, row["city"])
            IN  IF row["price"].t = "num" /\ median.t = "num" /\ median.n > 0
                THEN NumV(FracMul(FracDiv(FracSub(FracOf(row["price"]), FracOf(median)),
                                          FracOf(median)),
                                  Frac(100, 1)))
                ELSE NaN
        Cell(row, k) ==
            CASE k = "calculated_price_per_sqft" /\ perSqft -> PricePerSqft(row)
              [] k = "estimated_rental_yield" /\ yield -> RentalYield(row)
              [] k = "property_age" /\ age -> PropertyAge(row)
              [] k = "city_median_price" /\ market -> CityMedianPrice(df, row["city"])
              [] k = "price_vs_market" /\ market -> PriceVsMarket(row)
              [] OTHER -> row[k]
    IN  [ raised |-> \/ perSqft /\ (HoldsText(df, "price") \/ HoldsText(df, "square_feet"))
                     \/ yield /\ (HoldsText(df, "price") \/ HoldsText(df, "rent_estimate"))
                     \/ age /\ HoldsText(df, "year_built")
                     \/ market /\ HoldsText(df, "price"),
          df |-> [cols |-> cols,
                  rows |-> [i \in 1..Len(df.rows) |-> [k \in cols |-> Cell(df.rows[i], k)]]] ]

\* save_to_csv that counts the header line of the file with the rows
SaveToCsv_CountsHeader(df, written) == IF written THEN Len(df.rows) + 1 ELSE 0
\* save_to_csv: the number of rows written, 0 where the write failed
SaveToCsv(df, written) == IF written THEN Len(df.rows) ELSE 0

\* the loop body without its else: a duplicate is counted and kept as well
KeepOrCount_KeepsDuplicates(acc, property_data, is_dup) ==
    IF ~is_dup
    THEN [acc EXCEPT !.unique_properties = Append(@, property_data),
                     !.dispositions = Append(@, "unique")]
    ELSE [acc EXCEPT !.unique_properties = Append(@, property_data),
                     !.duplicate_count = @ + 1,
                     !.dispositions = Append(@, "duplicate")]
\* the loop body of _deduplicate_data: the row is kept or it is counted
KeepOrCount(acc, property_data, is_dup) ==
    IF ~is_dup
    THEN [acc EXCEPT !.unique_properties = Append(@, property_data),
                     !.dispositions = Append(@, "unique")]
    ELSE [acc EXCEPT !.duplicate_count = @ + 1,
                     !.dispositions = Append(@, "duplicate")]

\* the properties table the engine queries: nothing in the run writes to it
Listed ==
    [ external_id |-> Str(<<"a", "1">>), data_source |-> Str(<<"z", "i", "l", "l", "o", "w">>),
      street_address |-> Str(<<"1", " ", "E", "l", "m", " ", "S", "t">>), city |-> Str(<<"A", "u", "s", "t", "i", "n">>),
      state |-> Str(<<"T", "X">>), zip_code |-> Str(<<"7", "8", "7", "0", "1">>),
      bedrooms |-> Num(3), bathrooms |-> Num(2), square_feet |-> Num(1500),
      price |-> Num(45000000) ]
Stores == {{}, {Listed}}

\* scraped records
ListingA ==
    [ data_source |-> Str(<<"z", "i", "l", "l", "o", "w">>), external_id |-> Str(<<"a", "1">>),
      price |-> Num(450000), city |-> Str(<<"a", "u", "s", "t", "i", "n">>),
      state |-> Str(<<"t", "x">>), zip_code |-> Str(<<"7", "8", "7", "0", "1">>) ]
ListingB ==
    [ data_source |-> Str(<<"z", "i", "l", "l", "o", "w">>), external_id |-> Str(<<"a", "2">>),
      price |-> Str(<<"$", "4", "5", "0", ",", "0", "0", "0">>), city |-> Str(<<" ", "a", "u", "s", "t", "i", "n", " ">>),
      state |-> Str(<<"T", "e", "x", "a", "s">>), zip_code |-> Str(<<"7", "8", "7", "0", "1", "-", "1", "2", "3", "4">>) ]
ListingC ==
    [ data_source |-> Str(<<"r", "e", "d", "f", "i", "n">>), external_id |-> Str(<<"b", "7">>),
      price |-> Num(5000), city |-> Str(<<"w", "a", "c", "o">>),
      state |-> Str(<<"t", "x">>), year_built |-> Str(<<"1", "9", "9", "0">>) ]
ListingD ==
    [ external_id |-> Str(<<"c", "3">>), price |-> Num(450000) ]
ListingE ==
    [ data_source |-> Str(<<"z", "i", "l", "l", "o", "w">>), external_id |-> Str(<<"e", "5">>),
      price |-> Str(<<"a", "b", "c">>) ]
ListingF == [k \in {} |-> PyNone]
ListingG ==
    [ data_source |-> Str(<<"r", "e", "d", "f", "i", "n">>), external_id |-> Str(<<"a", "1">>),
      price |-> Num(50000), city |-> Str(<<"w", "a", "c", "o">>),
      state |-> Str(<<"t", "x">>), year_built |-> Num(1990) ]
Catalogue == {ListingA, ListingB, ListingC, ListingD, ListingE, ListingF, ListingG}

\* three raw records that carry street, city, state, zip, price and beds
\* only: the second is the address of the first with price and beds written
\* in another form, the third another address
ScenarioBatch ==
    << [ street |-> Str(<<"1", " ", "e", "l", "m", " ", "s", "t">>), city |-> Str(<<"a", "u", "s", "t", "i", "n">>),
         state |-> Str(<<"t", "x">>), zip |-> Str(<<"7", "8", "7", "0", "1">>),
         price |-> Num(450000), beds |-> Num(3) ],
       [ street |-> Str(<<"1", " ", "e", "l", "m", " ", "s", "t">>), city |-> Str(<<"a", "u", "s", "t", "i", "n">>),
         state |-> Str(<<"t", "x">>), zip |-> Str(<<"7", "8", "7", "0", "1">>),
         price |-> Str(<<"$", "4", "5", "0", ",", "0", "0", "0">>), beds |-> Str(<<"3">>) ],
       [ street |-> Str(<<"9", " ", "o", "a", "k", " ", "a", "v", "e">>), city |-> Str(<<"w", "a", "c", "o">>),
         state |-> Str(<<"t", "x">>), zip |-> Str(<<"7", "6", "7", "0", "1">>),
         price |-> Num(300000), beds |-> Num(2) ] >>

MaxBatch == 2
Batches ==
    UNION {[1..n -> Catalogue] : n \in 0..MaxBatch} \cup {ScenarioBatch}

\* entry of process_scraped_data: results, before the try block
ProcInit ==
    /\ chk = None
    /\ \E batch \in Batches, store \in Stores :
        proc = [ pc |-> "frame",
                 scraped_data |-> batch,
                 store |-> store,
                 results |-> [total_input |-> Len(batch), processed |-> 0, saved |-> 0,
                              duplicates |-> 0, invalid |-> 0, errors |-> <<>>],
                 df |-> EmptyFrame,
                 valid_df |-> EmptyFrame,
                 transformed_df |-> EmptyFrame,
                 unique_properties |-> <<>>,
                 duplicate_count |-> 0,
                 dispositions |-> <<>>,
                 check_errors |-> 0,
                 unique_df |-> EmptyFrame,
                 enriched_df |-> EmptyFrame,
                 save_failed |-> FALSE,
                 stages |-> <<>> ]

\* df = pd.DataFrame(scraped_data); if df.empty: return results
ProcFrame ==
    /\ proc.pc = "frame"
    /\ \E df \in {DataFrame(proc.scraped_data)} :
        proc' = [proc EXCEPT !.df = df,
                                !.pc = IF IsEmpty(df) THEN "done" ELSE "validate"]
    /\ UNCHANGED <<fetchVars, simVars, valVars, chk, xfVars, fpVars, crawlVars, dedupVars, extVars, jobVars>>

\* step 1: _validate_data; results['invalid']; if valid_df.empty: return
ProcValidate ==
    /\ proc.pc = "validate"
    /\ \E out \in {ValidateData(proc.df)} :
        proc' = [proc EXCEPT
                !.results.invalid = Len(proc.df.rows) - Len(out.valid_df.rows),
                !.results.errors = @ \o out.validation_errors,
                !.valid_df = out.valid_df,
                !.stages = Append(@, "validate"),
                !.pc = IF IsEmpty(out.valid_df) THEN "done" ELSE "transform"]
    /\ UNCHANGED <<fetchVars, simVars, valVars, chk, xfVars, fpVars, crawlVars, dedupVars, extVars, jobVars>>

\* step 2: _transform_data
ProcTransform ==
    /\ proc.pc = "transform"
    /\ \E out \in {TransformData(proc.valid_df, clock)} :
        proc' = IF out.raised
                   THEN [proc EXCEPT !.pc = "except"]
                   ELSE [proc EXCEPT !.transformed_df = out.df,
                                     !.stages = Append(@, "transform"),
                                     !.pc = "dedup"]
    /\ UNCHANGED <<fetchVars, simVars, valVars, chk, xfVars, fpVars, crawlVars, dedupVars, extVars, jobVars>>

\* step 3: _deduplicate_data, one row of its loop; after the last row
\* unique_df is built and results['duplicates'] is set
ProcDeduplicate ==
    /\ proc.pc = "dedup"
    /\ \E exactOk \in BOOLEAN, searchOk \in BOOLEAN :
        \E property_data \in {proc.transformed_df.rows[Len(proc.dispositions) + 1]} :
        \E acc \in {KeepOrCount(
                        [proc EXCEPT !.check_errors =
                            IF CheckFailed(property_data, proc.store, exactOk, searchOk)
                            THEN @ + 1 ELSE @],
                        property_data,
                        IsDuplicate(property_data, proc.store, exactOk, searchOk))} :
            proc' = IF Len(acc.dispositions) < Len(proc.transformed_df.rows) THEN acc
                    ELSE [acc EXCEPT !.unique_df = UniqueFrame(acc.unique_properties),
                                     !.results.duplicates = acc.duplicate_count,
                                     !.stages = Append(@, "dedup"),
                                     !.pc = "enrich"]
    /\ UNCHANGED <<fetchVars, simVars, valVars, chk, xfVars, fpVars, crawlVars, dedupVars, extVars, jobVars>>

\* step 4: _enrich_data
ProcEnrich ==
    /\ proc.pc = "enrich"
    /\ \E out \in {EnrichData(proc.unique_df)} :
        proc' = IF out.raised
                   THEN [proc EXCEPT !.pc = "except"]
                   ELSE [proc EXCEPT !.enriched_df = out.df,
                                     !.stages = Append(@, "enrich"),
                                     !.pc = "save"]
    /\ UNCHANGED <<fetchVars, simVars, valVars, chk, xfVars, fpVars, crawlVars, dedupVars, extVars, jobVars>>

\* step 5: save_to_csv; results['saved'], results['processed']
ProcSave ==
    /\ proc.pc = "save"
    /\ \E written \in BOOLEAN :
        proc' = [proc EXCEPT !.results.saved = SaveToCsv(proc.enriched_df, written),
                             !.results.processed = Len(proc.enriched_df.rows),
                             !.save_failed = ~written,
                             !.stages = Append(@, "save"),
                             !.pc = "done"]
    /\ UNCHANGED <<fetchVars, simVars, valVars, chk, xfVars, fpVars, crawlVars, dedupVars, extVars, jobVars>>

\* except Exception: results['errors'].append("Processing error: ...")
ProcExcept ==
    /\ proc.pc = "except"
    /\ proc' = [proc EXCEPT !.results.errors = Append(@, ProcessingError),
                            !.pc = "done"]
    /\ UNCHANGED <<fetchVars, simVars, valVars, chk, xfVars, fpVars, crawlVars, dedupVars, extVars, jobVars>>

InitBatch == ProcInit /\ FetchIdle /\ SimIdle /\ ValIdle /\ XfIdle /\ FpIdle /\ CrawlIdle /\ DedupIdle /\ ExtIdle /\ JobIdle
NextBatch ==
    \/ ProcFrame
    \/ ProcValidate
    \/ ProcTransform
    \/ ProcDeduplicate
    \/ ProcEnrich
    \/ ProcSave
    \/ ProcExcept
SpecBatch == InitBatch /\ [][NextBatch]_vars

\* len(valid_df): the records validation accepted; no stage has accepted
\* any before _validate_data returns
Accepted == Len(proc.valid_df.rows)
Finished == proc.pc = "done"
DedupFinished == \E i \in 1..Len(proc.stages) : proc.stages[i] = "dedup"
Count(dispositions, d) ==
    Cardinality({i \in 1..Len(dispositions) : dispositions[i] = d})

\* C2: when process_scraped_data has returned, the number of records that
\* validation accepted plus results['invalid'] equals results['total_input'].
C2_ValidPlusInvalidIsInput ==
    Finished => Accepted + proc.results.invalid = proc.results.total_input

\* C3: when process_scraped_data has returned, results['saved'] is at most
\* the number of valid records minus results['duplicates'], whether the save
\* succeeded, failed, or the batch left through the except clause.
C3_SavedAtMostValidMinusDuplicates ==
    Finished => proc.results.saved <= Accepted - proc.results.duplicates
C3_Witness ==
    /\ Finished
    /\ proc.results.duplicates >= 1
    /\ proc.results.saved >= 1
    /\ proc.results.saved = Accepted - proc.results.duplicates

\* C4: every row that has gone through the loop of _deduplicate_data has
\* exactly one disposition, kept as unique or counted as duplicate, so that
\* the kept rows plus the counted duplicates are the rows examined and, once
\* the stage is over, the rows that entered it; a failed query changes
\* nothing of this.
C4_ExactlyOneDisposition ==
    /\ \A i \in 1..Len(proc.dispositions) : proc.dispositions[i] \in {"unique", "duplicate"}
    /\ Len(proc.unique_properties) = Count(proc.dispositions, "unique")
    /\ proc.duplicate_count = Count(proc.dispositions, "duplicate")
    /\ Len(proc.unique_properties) + proc.duplicate_count = Len(proc.dispositions)
    /\ DedupFinished =>
        /\ Len(proc.dispositions) = Len(proc.transformed_df.rows)
        /\ Len(proc.unique_df.rows) + proc.results.duplicates = Len(proc.transformed_df.rows)
C4_Witness ==
    /\ DedupFinished
    /\ proc.check_errors >= 1
    /\ proc.results.duplicates >= 1
    /\ Len(proc.unique_properties) >= 1

\* C5: with a properties table that is empty at the start of the run, a row
\* submitted to the duplicate check a second time in the same run (the same
\* cells as an earlier row) is unique the first time and duplicate the
\* second time.
C5_SecondSubmissionIsDuplicate ==
    proc.store = {} =>
        \A i \in 1..Len(proc.dispositions) : \A j \in 1..Len(proc.dispositions) :
            (i < j /\ proc.transformed_df.rows[i] = proc.transformed_df.rows[j]) =>
                /\ proc.dispositions[i] = "unique"
                /\ proc.dispositions[j] = "duplicate"

\* C7: the batch of three raw records with street, city, state, zip, price
\* and beds only, the second the address of the first, gives input=3,
\* valid=3, duplicates=1, persisted=2 (the write succeeding), record 2
\* duplicate and record 3 unique.
C7_ScenarioResult ==
    (Finished /\ proc.scraped_data = ScenarioBatch /\ ~proc.save_failed) =>
        /\ proc.results.total_input = 3
        /\ Accepted = 3
        /\ proc.results.duplicates = 1
        /\ proc.results.saved = 2
        /\ proc.dispositions = <<"unique", "duplicate", "unique">>

(***************************************************************************)
(* Concurrent duplicate checks.  Each checker runs is_duplicate for one    *)
(* row against the same properties table; a query is one atomic read.      *)
(***************************************************************************)

NumCheckers == 2
Checkers == 1..NumCheckers

\* rows as they reach _deduplicate_data
CheckedRows ==
    {TransformData(DataFrame(<<listing>>), 0).df.rows[1] :
        listing \in {ListingA, ListingB, ListingC, ListingG}}

ChkInit ==
    /\ proc = None
    /\ \E store \in Stores, rows \in [Checkers -> CheckedRows] :
        chk = [ store |-> store,
                calls |-> [c \in Checkers |->
                            [property_data |-> rows[c], pc |-> "exact", is_dup |-> FALSE,
                             failed |-> FALSE]] ]

\* if self._is_exact_duplicate(property_data): return True
\* (except Exception: return False)
CheckExact ==
    /\ \E c \in Checkers, exactOk \in BOOLEAN :
        /\ chk.calls[c].pc = "exact"
        /\ chk' = [chk EXCEPT !.calls[c] =
                    IF ExactQueried(chk.calls[c].property_data) /\ ~exactOk
                    THEN [@ EXCEPT !.pc = "done", !.is_dup = FALSE, !.failed = TRUE]
                    ELSE IF IsExactDuplicate(chk.calls[c].property_data, chk.store)
                    THEN [@ EXCEPT !.pc = "done", !.is_dup = TRUE]
                    ELSE [@ EXCEPT !.pc = "similar"]]
    /\ UNCHANGED <<fetchVars, simVars, valVars, proc, xfVars, fpVars, crawlVars, dedupVars, extVars, jobVars>>

\* the candidates of _find_similar_properties compared with the threshold;
\* return True on the first that reaches it, else False
CheckSimilar ==
    /\ \E c \in Checkers, searchOk \in BOOLEAN :
        /\ chk.calls[c].pc = "similar"
        /\ chk' = [chk EXCEPT !.calls[c] =
                    [@ EXCEPT !.pc = "done",
                              !.failed = SearchQueried(chk.calls[c].property_data)
                                         /\ ~searchOk,
                              !.is_dup = IsDuplicate(chk.calls[c].property_data,
                                                     chk.store, TRUE, searchOk)]]
    /\ UNCHANGED <<fetchVars, simVars, valVars, proc, xfVars, fpVars, crawlVars, dedupVars, extVars, jobVars>>

InitChecks == ChkInit /\ FetchIdle /\ SimIdle /\ ValIdle /\ XfIdle /\ FpIdle /\ CrawlIdle /\ DedupIdle /\ ExtIdle /\ JobIdle
NextChecks == CheckExact \/ CheckSimilar
SpecChecks == InitChecks /\ [][NextChecks]_vars

\* C6: of the concurrent checks of rows with the same cells, against a
\* table that holds no duplicate of them and with every query answered, at
\* most one returns not-duplicate (is classified unique).
C6_AtMostOneUnique ==
    \A c1 \in Checkers : \A c2 \in Checkers :
        ( /\ c1 # c2
          /\ chk.calls[c1].pc = "done" /\ ~chk.calls[c1].failed
          /\ chk.calls[c2].pc = "done" /\ ~chk.calls[c2].failed
          /\ chk.calls[c1].property_data = chk.calls[c2].property_data
          /\ ~IsDuplicate(chk.calls[c1].property_data, chk.store, TRUE, TRUE) )
        => (chk.calls[c1].is_dup \/ chk.calls[c2].is_dup)

(***************************************************************************)
(* PropertyTransformer, src/src/etl/transform.py, and repeated transform   *)
(* calls on one input record.  The records carry no str square_feet, so    *)
(* _transform_measurements returns its argument.                           *)
(***************************************************************************)

\* PropertyTransformer._clean_text_fields
XfCleanTextFields(data) ==
    [k \in DOMAIN data |->
        IF k \in {"description", "address", "city", "state"} /\ Truthy(data[k])
        THEN Str(CollapseSpaces(RemoveTags(Strip(PyStr(data[k])))))
        ELSE data[k]]

\* PropertyTransformer._transform_prices: a number stays, a text is replaced
\* by the number the first pattern finds in it
XfTransformPrices(data) ==
    LET Price(v) ==
            LET matched == PricePatternGroup(PyStr(v))
                price == ParseFloat(Without(matched.group, {","}))
            IN  IF v.t = "str" /\ matched.found /\ price.ok /\ ~price.nan
                THEN NumV(price) ELSE v
    IN  [k \in DOMAIN data |->
            IF k \in {"price", "rent_estimate"} THEN Price(data[k]) ELSE data[k]]

\* the states of PropertyTransformer._standardize_address's state_mapping
transformer_states ==
    { <<"A", "L">>, <<"A", "K">>, <<"A", "Z">>, <<"A", "R">>, <<"C", "A">>,
      <<"C", "O">>, <<"C", "T">>, <<"D", "E">>, <<"F", "L">>, <<"G", "A">>,
      <<"H", "I">>, <<"I", "D">>, <<"I", "L">>, <<"I", "N">>, <<"I", "A">> }

\* PropertyTransformer._standardize_address
XfStandardizeAddress(data) ==
    LET State(v) ==
            LET state == ToUpper(Strip(PyStr(v)))
                hits == {pair \in state_mapping :
                            pair[1] = state /\ pair[2] \in transformer_states}
            IN  IF hits = {} THEN state ELSE (CHOOSE pair \in hits : TRUE)[2]
        Zip(v) ==
            IF HasFiveDigits(PyStr(v)) THEN Str(FirstFiveDigits(PyStr(v))) ELSE v
    IN  [k \in DOMAIN data |->
            IF k = "state" /\ Truthy(data[k]) THEN Str(State(data[k]))
            ELSE IF k = "zip_code" /\ Truthy(data[k]) THEN Zip(data[k])
            ELSE data[k]]

\* datetime.utcnow().isoformat() at time now
IsoFormat(now) == Str(<<"T">> \o NatToStr(now))

\* PropertyTransformer.transform_property, called at time now
TransformProperty(data, now) ==
    TheOne({Put(addressed, "processed_at", IsoFormat(now)) :
              addressed \in {XfStandardizeAddress(priced) :
                priced \in {XfTransformPrices(cleaned) :
                  cleaned \in {XfCleanTextFields(data)}}}})

MaxCalls == 2
MaxXfClock == 2
XfFunctions == {"transform_property_data", "transform_property", "_transform_data"}
XfRecords == (Catalogue \ {ListingF}) \cup SeqToSet(ScenarioBatch)

\* one input record; no transform call made yet
XfInit ==
    /\ \E record \in XfRecords : xf = [input |-> record, calls |-> <<>>]
    /\ clock = 0

\* time passes between calls
XfTick ==
    /\ clock < MaxXfClock
    /\ clock' = clock + 1
    /\ UNCHANGED <<scraper, reqTimes, fetch, nFetches, simVars, valVars, procVars,
                   xfVars, fpVars, crawlVars, dedupVars, extVars, jobVars>>

XfCall(fn, out) ==
    /\ Len(xf.calls) < MaxCalls
    /\ xf' = [xf EXCEPT !.calls = Append(@, [fn |-> fn, at |-> clock, out |-> out])]
    /\ UNCHANGED <<fetchVars, simVars, valVars, procVars, fpVars, crawlVars, dedupVars, extVars, jobVars>>

\* DataTransformer().transform_property_data(input): a transformer holds
\* only its pattern tables, so a new instance and an old one act alike
XfTransformPropertyData ==
    \E out \in {TransformPropertyData(xf.input)} :
        XfCall("transform_property_data", out)

\* PropertyTransformer().transform_property(input)
XfTransformProperty ==
    \E out \in {TransformProperty(xf.input, clock)} :
        XfCall("transform_property", out)

\* DataProcessor._transform_data on the frame of the one record
XfTransformData ==
    \E out \in {TransformData(DataFrame(<<xf.input>>), clock)} :
        XfCall("_transform_data", IF out.raised THEN None ELSE out.df.rows[1])

InitTransform ==
    XfInit /\ scraper = ScraperInit /\ reqTimes = <<>> /\ nFetches = 0
    /\ fetch = [outcome |-> None, statuses |-> <<>>, proxies |-> <<>>]
    /\ SimIdle /\ ValIdle /\ ProcIdle /\ FpIdle /\ CrawlIdle /\ DedupIdle /\ ExtIdle /\ JobIdle
NextTransform ==
    \/ XfTick
    \/ XfTransformPropertyData
    \/ XfTransformProperty
    \/ XfTransformData
SpecTransform == InitTransform /\ [][NextTransform]_vars

\* C11: two calls of the same transform function on the same input record
\* return equal records, whatever the times of the two calls.
C11_TransformIsPure ==
    \A i \in 1..Len(xf.calls) : \A j \in 1..Len(xf.calls) :
        xf.calls[i].fn = xf.calls[j].fn => xf.calls[i].out = xf.calls[j].out

(***************************************************************************)
(* Address fingerprints: DeduplicationEngine.create_address_hash and the   *)
(* address_hash of DataTransformer._generate_identifiers.  A digest is     *)
(* written as the text it is computed from: two digests are equal where    *)
(* the two texts are.                                                       *)
(***************************************************************************)

\* str.replace(old, new)
RECURSIVE Replace(_, _, _)
Replace(text, old, new) ==
    IF Len(text) < Len(old) THEN text
    ELSE IF SubSeq(text, 1, Len(old)) = old
         THEN new \o Replace(SubSeq(text, Len(old) + 1, Len(text)), old, new)
         ELSE <<Head(text)>> \o Replace(Tail(text), old, new)

\* DeduplicationEngine.create_address_hash
CreateAddressHash(property_data) ==
    LET Part(k) == IF k \in DOMAIN property_data THEN PyStr(property_data[k]) ELSE <<>>
        normalized_address ==
            Strip(ToLower(Part("street_address"))) \o <<" ">>
            \o Strip(ToLower(Part("city"))) \o <<" ">>
            \o Strip(ToLower(Part("state"))) \o <<" ">>
            \o Strip(Part("zip_code"))
    IN  Replace(Replace(Replace(Replace(Replace(normalized_address,
            <<"s", "t", "r", "e", "e", "t">>, <<"s", "t">>),
            <<"a", "v", "e", "n", "u", "e">>, <<"a", "v", "e">>),
            <<"b", "o", "u", "l", "e", "v", "a", "r", "d">>, <<"b", "l", "v", "d">>),
            <<"d", "r", "i", "v", "e">>, <<"d", "r">>),
            <<"r", "o", "a", "d">>, <<"r", "d">>)

Address(street_address, city, state, zip_code) ==
    [ street_address |-> Str(street_address), city |-> Str(city),
      state |-> Str(state), zip_code |-> Str(zip_code) ]
Addresses ==
    { Address(<<"1", " ", "e", "l", "m", " ", "s", "t">>, <<"w", "a", "c", "o">>,
              <<"t", "x">>, <<"7", "6", "7", "0", "1">>),
      Address(<<"9", " ", "o", "a", "k", " ", "a", "v", "e">>, <<"a", "u", "s", "t", "i", "n">>,
              <<"t", "x">>, <<"7", "8", "7", "0", "1">>),
      Address(<<"2", " ", "b", "a", "y", " ", "r", "d">>, <<"w", "a", "c", "o">>,
              <<"c", "a">>, <<"9", "0", "2", "1", "0">>) }

\* the long form of a street type
street_types ==
    { <<<<"s", "t">>, <<"s", "t", "r", "e", "e", "t">>>>,
      <<<<"a", "v", "e">>, <<"a", "v", "e", "n", "u", "e">>>>,
      <<<<"r", "d">>, <<"r", "o", "a", "d">>>> }
LongForm(street_address) ==
    LET words == Split(street_address)
        last == words[Len(words)]
        long == (CHOOSE pair \in street_types : pair[1] = last)[2]
    IN  Join([i \in 1..Len(words) |-> IF i = Len(words) THEN long ELSE words[i]])
DoubleBlanks(text) ==
    Replace(text, <<" ">>, <<" ", " ">>)

\* the spellings of an address that differ from it in one respect only
Spellings(a) ==
    { [kind |-> "case", address |-> [a EXCEPT !.street_address = Str(ToUpper(@.s))]],
      [kind |-> "case", address |-> [a EXCEPT !.city = Str(ToUpper(@.s))]],
      [kind |-> "case", address |-> [a EXCEPT !.state = Str(ToUpper(@.s))]],
      [kind |-> "whitespace", address |-> [a EXCEPT !.street_address = Str(<<" ">> \o @.s)]],
      [kind |-> "whitespace", address |-> [a EXCEPT !.city = Str(@.s \o <<" ">>)]],
      [kind |-> "whitespace", address |-> [a EXCEPT !.street_address = Str(DoubleBlanks(@.s))]],
      [kind |-> "abbreviation", address |-> [a EXCEPT !.street_address = Str(LongForm(@.s))]],
      [kind |-> "zip4", address |-> [a EXCEPT !.zip_code = Str(@.s \o <<"-", "1", "2", "3", "4">>)]] }

FpFunctions == {"create_address_hash", "_generate_identifiers", "transform_property_data"}
NoHash == [done |-> FALSE, a |-> <<>>, b |-> <<>>]

\* an address, one other spelling of it, no fingerprint computed
FpInit ==
    \E a \in Addresses : \E spelling \in Spellings(a) :
        fp = [ a |-> a, b |-> spelling.address, kind |-> spelling.kind,
               hashes |-> [fn \in FpFunctions |-> NoHash] ]

FpHash(fn, a, b) ==
    /\ ~fp.hashes[fn].done
    /\ fp' = [fp EXCEPT !.hashes[fn] = [done |-> TRUE, a |-> a, b |-> b]]
    /\ UNCHANGED <<fetchVars, simVars, valVars, procVars, xfVars, crawlVars, dedupVars, extVars, jobVars>>

\* create_address_hash of the two spellings
FpCreateAddressHash ==
    \E a \in {CreateAddressHash(fp.a)} : \E b \in {CreateAddressHash(fp.b)} :
        FpHash("create_address_hash", a, b)

\* _generate_identifiers of the two spellings as they are
FpGenerateIdentifiers ==
    \E a \in {GenerateIdentifiers(fp.a)} : \E b \in {GenerateIdentifiers(fp.b)} :
        FpHash("_generate_identifiers", a["address_hash"].s, b["address_hash"].s)

\* the address_hash transform_property_data gives the two spellings:
\* _generate_identifiers after the text and address steps of the transformer
FpTransform ==
    \E a \in {TransformPropertyData(fp.a)} : \E b \in {TransformPropertyData(fp.b)} :
        FpHash("transform_property_data", a["address_hash"].s, b["address_hash"].s)

InitFingerprint == FpInit /\ FetchIdle /\ SimIdle /\ ValIdle /\ ProcIdle /\ XfIdle /\ CrawlIdle /\ DedupIdle /\ ExtIdle /\ JobIdle
NextFingerprint ==
    \/ FpCreateAddressHash
    \/ FpGenerateIdentifiers
    \/ FpTransform
SpecFingerprint == InitFingerprint /\ [][NextFingerprint]_vars

\* C12: two spellings of an address that differ only in letter case, in
\* whitespace, in a street-type abbreviation or in a ZIP+4 suffix get the
\* same fingerprint from every fingerprint function.
C12_SpellingsShareFingerprint ==
    \A fn \in FpFunctions :
        fp.hashes[fn].done => fp.hashes[fn].a = fp.hashes[fn].b

(***************************************************************************)
(* search_properties, the crawl generator of the site adapters:            *)
(* ZillowScraper (src/src/scrapers/zillow_scraper.py) and, of the same     *)
(* shape, ApartmentsScraper; RedfinScraper differs in how an item fails    *)
(* and in how it learns that there is a next page.  A page is the list of  *)
(* its items, each one parsing into a record or failing, and its "next"    *)
(* button; a page without items stands for a page with no cards and for a  *)
(* Redfin answer that is not JSON or holds no homes.                       *)
(***************************************************************************)

MaxMaxResults == 2
MaxCards == 2
MaxPages == 3
\* len(homes) < 350 ends a Redfin crawl; scaled to the pages used here
full_page == 2
\* the consecutive per-item parse failures a crawl is to tolerate
FailureBound == 3

Adapters == {"zillow", "redfin"}
\* what make_request gives a crawl: a response or one of its two exceptions
FetchOutcomes == {"response", "RateLimitError", "ScrapingError"}
Items == {"record", "failed"}
PageItems == UNION {[1..n -> Items] : n \in 0..MaxCards}

\* while results_count < max_results
WhileCondition_Inclusive(c) == c.results_count <= c.max_results
WhileCondition(c) == c.results_count < c.max_results

\* the end of the generator: "return" is a normal end of the sequence
\* (StopIteration), "raise" an exception that reaches the consumer
Ended(c, how) == [c EXCEPT !.pc = "done", !.ended = how]

\* the check for more pages after the cards of a page
MorePages(c) ==
    IF c.adapter = "redfin" THEN Len(c.cards) >= full_page ELSE c.next_button
Paginate(c) ==
    IF MorePages(c) THEN [c EXCEPT !.page = @ + 1, !.pc = "while"]
    ELSE Ended(c, "return")
\* the for loop moves to the next card, or is done with the page
Advance(c) ==
    IF c.idx = Len(c.cards) THEN Paginate(c) ELSE [c EXCEPT !.idx = @ + 1]

\* search_properties(search_criteria) called; nothing runs before the first next()
CrawlInit ==
    \E adapter \in Adapters, max_results \in 0..MaxMaxResults :
        crawl = [ adapter |-> adapter, max_results |-> max_results,
                  pc |-> "while", page |-> 1, results_count |-> 0,
                  cards |-> <<>>, idx |-> 0, next_button |-> FALSE,
                  requests |-> 0, late_requests |-> 0, yielded |-> 0,
                  failures |-> 0, error |-> None, ended |-> "no" ]

\* the head of the while loop: the condition, make_request for the page, the
\* cards of the answer; except Exception: break
CrawlPage ==
    /\ crawl.pc = "while"
    /\ crawl.page <= MaxPages
    /\ IF ~WhileCondition(crawl)
       THEN crawl' = Ended(crawl, "return")
       ELSE \E outcome \in FetchOutcomes, cards \in PageItems, next_button \in BOOLEAN :
              LET sent == [crawl EXCEPT
                              !.requests = @ + 1,
                              !.late_requests =
                                  IF crawl.yielded >= crawl.max_results THEN @ + 1 ELSE @]
              IN  crawl' =
                    IF outcome # "response"
                    THEN Ended([sent EXCEPT !.error = outcome], "return")
                    ELSE IF cards = <<>> THEN Ended(sent, "return")
                    ELSE [sent EXCEPT !.cards = cards, !.next_button = next_button,
                                      !.idx = 1, !.pc = "cards"]
    /\ UNCHANGED <<fetchVars, simVars, valVars, procVars, xfVars, fpVars, dedupVars, extVars, jobVars>>

\* one card of the for loop: the break on a full count, the extraction, the
\* yield; an item that fails is skipped (Zillow: the extractor returns {},
\* Redfin: it raises and the loop continues)
CrawlCard ==
    /\ crawl.pc = "cards"
    /\ crawl' =
         IF crawl.results_count >= crawl.max_results THEN Paginate(crawl)
         ELSE IF crawl.cards[crawl.idx] = "record"
              THEN [crawl EXCEPT !.yielded = @ + 1, !.failures = 0, !.pc = "yielded"]
              ELSE Advance([crawl EXCEPT !.failures = @ + 1])
    /\ UNCHANGED <<fetchVars, simVars, valVars, procVars, xfVars, fpVars, dedupVars, extVars, jobVars>>

\* the consumer asks for the next record: results_count += 1
CrawlResume ==
    /\ crawl.pc = "yielded"
    /\ crawl' = Advance([crawl EXCEPT !.results_count = @ + 1, !.pc = "cards"])
    /\ UNCHANGED <<fetchVars, simVars, valVars, procVars, xfVars, fpVars, dedupVars, extVars, jobVars>>

\* the consumer leaves its for loop: the generator is closed where it stands
CrawlClose ==
    /\ crawl.pc = "yielded"
    /\ crawl' = Ended(crawl, "closed")
    /\ UNCHANGED <<fetchVars, simVars, valVars, procVars, xfVars, fpVars, dedupVars, extVars, jobVars>>

InitCrawl == CrawlInit /\ FetchIdle /\ SimIdle /\ ValIdle /\ ProcIdle /\ XfIdle /\ FpIdle /\ DedupIdle /\ ExtIdle /\ JobIdle
NextCrawl ==
    \/ CrawlPage
    \/ CrawlCard
    \/ CrawlResume
    \/ CrawlClose
SpecCrawl == InitCrawl /\ [][NextCrawl]_vars

\* C15: a crawl yields at most max_results records and sends no request for
\* a page once it has yielded max_results records.
C15_AtMostMaxResults ==
    /\ crawl.yielded <= crawl.max_results
    /\ crawl.late_requests = 0

\* a crawl that yielded max_results records over two pages and ended with a
\* third page on offer that it did not request
C15_Witness ==
    /\ crawl.pc = "done" /\ crawl.ended = "return"
    /\ crawl.max_results = MaxMaxResults /\ crawl.yielded = crawl.max_results
    /\ crawl.requests = 2 /\ crawl.page = 3

\* C16: once the consecutive per-item parse failures of a crawl exceed the
\* bound the crawl has stopped: it handles no further item and requests no
\* further page.
C16_StopsOnParseFailures ==
    crawl.failures > FailureBound => crawl.pc = "done"

\* C17: a crawl in which make_request raised ends by raising that error to
\* its consumer, not by a normal end of the sequence.
C17_FetchErrorReachesCaller ==
    crawl.error # None => crawl.ended = "raise"

(***************************************************************************)
(* process_scraped_data: the order of the stages, a record that fails in   *)
(* a stage, a CSV write that fails                                         *)
(***************************************************************************)

StageOrder == <<"validate", "transform", "dedup", "enrich", "save">>
Reached(stage) == \E i \in 1..Len(proc.stages) : proc.stages[i] = stage
\* the rows of a frame are the rows of another, cell external_id by cell
SameRecords(rows, others) ==
    /\ Len(rows) = Len(others)
    /\ \A i \in 1..Len(rows) : rows[i]["external_id"] = others[i]["external_id"]
\* the transformed rows that _deduplicate_data has classified unique so far
KeptRows ==
    CharsAt(proc.transformed_df.rows,
            {i \in 1..Len(proc.dispositions) : proc.dispositions[i] = "unique"})

\* C18: the stages of a run happen in the order validate, transform,
\* deduplicate, enrich, persist; the rows handed to transformation are rows
\* validation accepted, the rows deduplication classifies are the
\* transformed rows, the rows enriched are the rows classified unique, and
\* the rows handed to persistence are the enriched rows.
C18_FixedStageOrder ==
    /\ proc.stages = SubSeq(StageOrder, 1, Len(proc.stages))
    /\ \A i \in 1..Len(proc.valid_df.rows) :
            ValidatePropertyData(proc.valid_df.rows[i]).is_valid
    /\ Reached("transform") => SameRecords(proc.transformed_df.rows, proc.valid_df.rows)
    /\ Len(proc.dispositions) <= Len(proc.transformed_df.rows)
    /\ proc.unique_properties = KeptRows
    /\ Reached("enrich") => SameRecords(proc.enriched_df.rows, proc.unique_properties)
    /\ Reached("save") => proc.results.processed = Len(proc.enriched_df.rows)

\* a run through all five stages of a batch that held a record validation
\* rejected and a record that was saved
C18_Witness ==
    /\ Finished /\ proc.stages = StageOrder
    /\ proc.results.invalid >= 1 /\ proc.results.saved >= 1

\* the records of the catalogue that, as the only record of a batch run
\* against the table store, pass validation, transformation, the duplicate
\* check (classified unique) and enrichment
CompletesAlone(record, store) ==
    /\ record # ListingF
    /\ ValidatePropertyData(record).is_valid
    /\ \E transformed \in {TransformData(DataFrame(<<record>>), 0)} :
        /\ ~transformed.raised
        /\ ~IsDuplicate(transformed.df.rows[1], store, TRUE, TRUE)
        /\ ~EnrichData(transformed.df).raised
Completing == [store \in Stores |-> {record \in Catalogue : CompletesAlone(record, store)}]

\* the row of a frame is the record, by its data_source and external_id
RowOf(row, record) ==
    /\ row["data_source"] = record["data_source"]
    /\ row["external_id"] = record["external_id"]

\* C19: a record that validation accepted and that on its own passes every
\* later stage is handed to persistence (the run reaches save_to_csv with
\* it), whatever happens to the other records of its batch.
C19_RecordFailureIsIsolated ==
    Finished =>
        \A i \in 1..Len(proc.valid_df.rows) :
            (\E record \in Completing[proc.store] : RowOf(proc.valid_df.rows[i], record))
                => /\ Reached("save")
                   /\ \E k \in 1..Len(proc.enriched_df.rows) :
                        RowOf(proc.enriched_df.rows[k], proc.valid_df.rows[i])

\* C20: a run whose CSV write failed does not end as a normal result with
\* an empty error list.
C20_SaveFailureIsReported ==
    (Finished /\ proc.save_failed) => proc.results.errors # <<>>

\* the length a bounded sample of diagnostics is to stay within
ErrorsCap == 5

\* C21: the errors list of a batch result never holds more than a fixed
\* number of entries.
C21_ErrorsAreBoundedSample ==
    Len(proc.results.errors) <= ErrorsCap

(***************************************************************************)
(* _numeric_similarity called on its own: one field name, two values.      *)
(***************************************************************************)
CmpInit ==
    /\ cmp = [ called |-> FALSE, field_name |-> "bedrooms",
               num1 |-> PyNone, num2 |-> PyNone, result |-> Zero ]
    /\ grp = None
    /\ mrg = None

\* DeduplicationEngine._numeric_similarity(num1, num2, field_name)
NumericSimilarityCall ==
    /\ \E field_name \in NumericFields, num1 \in NumberValues, num2 \in NumberValues :
        cmp' = [ called |-> TRUE, field_name |-> field_name,
                 num1 |-> num1, num2 |-> num2,
                 result |-> NumericSimilarity(num1, num2, field_name) ]
    /\ UNCHANGED <<fetchVars, simVars, valVars, procVars, xfVars, fpVars, crawlVars,
                   grp, mrg, extVars, jobVars>>

InitNumeric ==
    CmpInit /\ FetchIdle /\ SimIdle /\ ValIdle /\ ProcIdle /\ XfIdle /\ FpIdle
    /\ CrawlIdle /\ ExtIdle /\ JobIdle
NextNumeric == NumericSimilarityCall
SpecNumeric == InitNumeric /\ [][NextNumeric]_vars

\* a count of rooms: a number that is not negative
IsCount(v) == v.t = "num" /\ v.n >= 0
CountGap(v1, v2) == FracAbs(FracSub(Frac(v1.n, v1.d), Frac(v2.n, v2.d)))

\* C22: two bathroom counts more than 0.5 apart score strictly less than 1.0
\* and two at most 0.5 apart score 1.0; two bedroom counts score 1.0 when
\* equal and 0.0 otherwise.
C22_BathroomToleranceIsAbsolute ==
    (cmp.called /\ IsCount(cmp.num1) /\ IsCount(cmp.num2)) =>
        /\ cmp.field_name = "bathrooms" =>
              IF FracLeq(CountGap(cmp.num1, cmp.num2), [n |-> 1, d |-> 2])
              THEN cmp.result = One
              ELSE FracLt(cmp.result, One)
        /\ cmp.field_name = "bedrooms" =>
              cmp.result = (IF Frac(cmp.num1.n, cmp.num1.d) = Frac(cmp.num2.n, cmp.num2.d)
                            THEN One ELSE Zero)

\* the bedroom half of C22 on its own
C22_BedroomsExact ==
    (cmp.called /\ IsCount(cmp.num1) /\ IsCount(cmp.num2)
        /\ cmp.field_name = "bedrooms") =>
        cmp.result = (IF Frac(cmp.num1.n, cmp.num1.d) = Frac(cmp.num2.n, cmp.num2.d)
                      THEN One ELSE Zero)

(***************************************************************************)
(* find_duplicates_in_batch: the groups of a batch of property dicts.      *)
(***************************************************************************)
\* the longest batch grouped here
MaxGroupBatch == 4

\* four homes: B is A with another bedroom count, C is B in another state,
\* D is somewhere else altogether
HomeA ==
    [ street_address |-> Str(<<"1", " ", "a">>), city |-> Str(<<"w", "a", "c", "o">>),
      state |-> Str(<<"t", "x">>), zip_code |-> Str(<<"7", "6">>),
      bedrooms |-> Num(2), bathrooms |-> Num(1), square_feet |-> Num(900) ]
HomeB == [HomeA EXCEPT !.bedrooms = Num(3)]
HomeC == [HomeB EXCEPT !.state = Str(<<"o", "k">>)]
HomeD ==
    [ street_address |-> Str(<<"9", " ", "z">>), city |-> Str(<<"e", "r", "i", "e">>),
      state |-> Str(<<"p", "a">>), zip_code |-> Str(<<"1", "6">>),
      bedrooms |-> Num(5), bathrooms |-> Num(4), square_feet |-> Num(4000) ]
Homes == {HomeA, HomeB, HomeC, HomeD}

\* _calculate_similarity on every pair of homes, computed once
HomeSimilarity ==
    [ p \in Homes \X Homes |-> CalculateSimilarity(p[1], p[2]) ]

\* similarity >= self.similarity_threshold
IsBatchDuplicate(prop1, prop2) ==
    FracLeq(similarity_threshold, HomeSimilarity[<<prop1, prop2>>])

\* mutant: each candidate is compared with the member appended last, not with
\* the seed
InnerLoop_Chained(properties, i, j, duplicates, processed_indices) ==
    LET RECURSIVE Loop(_, _, _)
        Loop(jj, dups, processed) ==
            IF jj >= Len(properties)
            THEN [duplicates |-> dups, processed_indices |-> processed]
            ELSE IF jj \in processed THEN Loop(jj + 1, dups, processed)
            ELSE IF IsBatchDuplicate(properties[dups[Len(dups)] + 1], properties[jj + 1])
                 THEN Loop(jj + 1, Append(dups, jj), processed \cup {jj})
                 ELSE Loop(jj + 1, dups, processed)
    IN  Loop(j, duplicates, processed_indices)

\* the inner loop `for j, prop2 in enumerate(properties[i+1:], start=i+1)`;
\* indices count from 0 as in the code
InnerLoop(properties, i, j, duplicates, processed_indices) ==
    LET RECURSIVE Loop(_, _, _)
        Loop(jj, dups, processed) ==
            IF jj >= Len(properties)
            THEN [duplicates |-> dups, processed_indices |-> processed]
            ELSE IF jj \in processed THEN Loop(jj + 1, dups, processed)
            ELSE IF IsBatchDuplicate(properties[i + 1], properties[jj + 1])
                 THEN Loop(jj + 1, Append(dups, jj), processed \cup {jj})
                 ELSE Loop(jj + 1, dups, processed)
    IN  Loop(j, duplicates, processed_indices)

RECURSIVE HomeBatches(_)
HomeBatches(k) ==
    IF k = 0 THEN {<<>>}
    ELSE LET shorter == HomeBatches(k - 1)
         IN  shorter \cup {Append(b, h) : b \in shorter, h \in Homes}

\* duplicate_groups = {}; processed_indices = set(); the dict's keys are
\* group_0, group_1, ... in insertion order: a sequence
GrpInit ==
    /\ \E properties \in HomeBatches(MaxGroupBatch) :
        grp = [ properties |-> properties, i |-> 0,
                processed_indices |-> {}, duplicate_groups |-> <<>>,
                returned |-> FALSE ]
    /\ cmp = None
    /\ mrg = None

\* `if i in processed_indices: continue`
GrpSkip ==
    /\ grp.i < Len(grp.properties)
    /\ grp.i \in grp.processed_indices
    /\ grp' = [grp EXCEPT !.i = grp.i + 1]
    /\ UNCHANGED <<fetchVars, simVars, valVars, procVars, xfVars, fpVars, crawlVars,
                   cmp, mrg, extVars, jobVars>>

\* one pass of the outer loop for an index not yet in a group
GrpSeed ==
    /\ grp.i < Len(grp.properties)
    /\ grp.i \notin grp.processed_indices
    /\ \E scan \in {InnerLoop(grp.properties, grp.i, grp.i + 1, <<grp.i>>,
                              grp.processed_indices)} :
        grp' = [grp EXCEPT
                  !.i = grp.i + 1,
                  !.duplicate_groups =
                      IF Len(scan.duplicates) > 1
                      THEN Append(grp.duplicate_groups, scan.duplicates)
                      ELSE grp.duplicate_groups,
                  !.processed_indices =
                      IF Len(scan.duplicates) > 1
                      THEN scan.processed_indices
                               \cup {scan.duplicates[k] : k \in 1..Len(scan.duplicates)}
                      ELSE scan.processed_indices]
    /\ UNCHANGED <<fetchVars, simVars, valVars, procVars, xfVars, fpVars, crawlVars,
                   cmp, mrg, extVars, jobVars>>

\* return duplicate_groups
GrpReturn ==
    /\ grp.i = Len(grp.properties)
    /\ ~grp.returned
    /\ grp' = [grp EXCEPT !.returned = TRUE]
    /\ UNCHANGED <<fetchVars, simVars, valVars, procVars, xfVars, fpVars, crawlVars,
                   cmp, mrg, extVars, jobVars>>

InitGroups ==
    GrpInit /\ FetchIdle /\ SimIdle /\ ValIdle /\ ProcIdle /\ XfIdle /\ FpIdle
    /\ CrawlIdle /\ ExtIdle /\ JobIdle
NextGroups == GrpSkip \/ GrpSeed \/ GrpReturn
SpecGroups == InitGroups /\ [][NextGroups]_vars

Members(group) == {group[k] : k \in 1..Len(group)}

\* C23: the groups are pairwise disjoint (no index in two groups, none twice
\* in one), each has at least two members, its first member is its lowest
\* index and every other member scores at least the threshold against it; an
\* index that reaches the threshold against a non-seed member only is not in
\* the group.
C23_GroupsAreSeeded ==
    LET groups == grp.duplicate_groups
        props == grp.properties
    IN  /\ \A g \in 1..Len(groups) :
            /\ Len(groups[g]) >= 2
            /\ Cardinality(Members(groups[g])) = Len(groups[g])
            /\ \A k \in 2..Len(groups[g]) :
                /\ groups[g][1] < groups[g][k]
                /\ IsBatchDuplicate(props[groups[g][1] + 1], props[groups[g][k] + 1])
            /\ \A r \in 0..(Len(props) - 1) :
                (/\ ~IsBatchDuplicate(props[groups[g][1] + 1], props[r + 1])
                 /\ \E k \in 2..Len(groups[g]) :
                        IsBatchDuplicate(props[groups[g][k] + 1], props[r + 1]))
                    => r \notin Members(groups[g])
        /\ \A g, h \in 1..Len(groups) :
            g # h => Members(groups[g]) \cap Members(groups[h]) = {}

\* A, B, C grouped: B joins A's group, C matches B but not A and stays out
C23_Witness ==
    /\ grp.returned
    /\ grp.properties = <<HomeA, HomeB, HomeC>>
    /\ IsBatchDuplicate(HomeB, HomeC)
    /\ ~IsBatchDuplicate(HomeA, HomeC)
    /\ grp.duplicate_groups = <<(<<0, 1>>)>>

(***************************************************************************)
(* merge_duplicate_properties: the members are dicts; a features dict is   *)
(* an object of its own, reached through a reference, so that a shallow    *)
(* copy shares it with the member it was copied from.                      *)
(***************************************************************************)
\* the longest cluster merged, and the calls made on one cluster
MaxCluster == 3
MaxMergeCalls == 2

\* a features dict over the keys pool, gym: "T"/"F" for True/False, "-" for a
\* key the dict does not hold
NoFeatures == <<"-", "-">>
\* a reference to the dict object in heap cell id
DictRef(id) == [t |-> "dict", n |-> id, d |-> 1, s |-> <<>>]
\* the dict object itself, by value
DictVal(content) == [t |-> "dict", n |-> 0, d |-> 1, s |-> content]
\* a list of image names
PyList(items) == [t |-> "list", n |-> 0, d |-> 1, s |-> items]
ImageOrder == <<"u", "v">>

\* the members a cluster is drawn from: the dict, and the content of its
\* features dict when it owns one
Members_ ==
    { [ data |-> [k \in {} |-> PyNone], own |-> FALSE, features |-> NoFeatures ],
      [ data |-> [ price |-> PyNone, features |-> PyNone ],
        own |-> FALSE, features |-> NoFeatures ],
      [ data |-> [ price |-> Str(<<>>), description |-> Str(<<"a">>) ],
        own |-> FALSE, features |-> NoFeatures ],
      [ data |-> [ price |-> Num(0), rent_estimate |-> Num(900) ],
        own |-> TRUE, features |-> NoFeatures ],
      [ data |-> [ price |-> Num(100), rent_estimate |-> Num(0),
                   images |-> PyList(<<"u">>) ],
        own |-> TRUE, features |-> <<"T", "-">> ],
      [ data |-> [ price |-> Num(200), description |-> Str(<<"a", "b">>),
                   images |-> PyList(<<"v">>) ],
        own |-> TRUE, features |-> <<"F", "T">> ],
      [ data |-> [ price |-> NaN, rent_estimate |-> Num(800),
                   images |-> PyList(<<>>) ],
        own |-> FALSE, features |-> NoFeatures ] }

RECURSIVE Clusters(_)
Clusters(k) ==
    IF k = 0 THEN {<<>>}
    ELSE LET shorter == Clusters(k - 1)
         IN  shorter \cup {Append(c, m) : c \in shorter, m \in Members_}

\* bool(v) of a value of a member, the dict objects read from the heap
MrgTruthy(v, heap) ==
    CASE v.t = "dict" -> heap[v.n] # NoFeatures
      [] v.t = "list" -> v.s # <<>>
      [] OTHER -> Truthy(v)

\* key not in merged or merged[key] is None or merged[key] == ''
MrgMissing(merged, key) ==
    \/ key \notin DOMAIN merged
    \/ merged[key].t = "None"
    \/ (merged[key].t = "str" /\ merged[key].s = <<>>)

\* list(set(a + b)), in one fixed order of the names
ListOfSet(a, b) ==
    LET S == {a[i] : i \in 1..Len(a)} \cup {b[i] : i \in 1..Len(b)}
    IN  SelectSeq(ImageOrder, LAMBDA x : x \in S)

\* dict.update: the keys of b are written over those of a
DictUpdate(a, b) == [i \in 1..Len(a) |-> IF b[i] # "-" THEN b[i] ELSE a[i]]

\* mutant: a later non-zero price replaces the one already there
MergeKey_LastWins(merged, key, value, heap) ==
    IF MrgMissing(merged, key) THEN value
    ELSE IF key \in {"price", "rent_estimate"} /\ MrgTruthy(value, heap) THEN value
    ELSE merged[key]

\* the value one key has after one pass of the loop of _merge_two_properties
MergeKey(merged, key, value, heap) ==
    IF MrgMissing(merged, key) THEN value
    ELSE IF key = "description" /\ MrgTruthy(value, heap)
            /\ Len(PyStr(value)) > Len(PyStr(merged[key]))
         THEN value
    ELSE IF key \in {"images", "features"} /\ MrgTruthy(value, heap)
         THEN (IF merged[key].t = "list" /\ value.t = "list"
               THEN PyList(ListOfSet(merged[key].s, value.s))
               ELSE merged[key])
    ELSE IF key \in {"price", "rent_estimate"} /\ MrgTruthy(value, heap)
         THEN (IF ~MrgTruthy(merged[key], heap)
                    \/ (merged[key].t = "num" /\ merged[key].n = 0)
               THEN value ELSE merged[key])
    ELSE merged[key]

\* merged[key].update(value): the dict object merged[key] refers to is written
MergeHeap(merged, prop2, heap) ==
    IF /\ "features" \in DOMAIN prop2
       /\ ~MrgMissing(merged, "features")
       /\ MrgTruthy(prop2["features"], heap)
       /\ merged["features"].t = "dict" /\ prop2["features"].t = "dict"
    THEN [heap EXCEPT ![merged["features"].n] =
                          DictUpdate(@, heap[prop2["features"].n])]
    ELSE heap

\* _merge_two_properties(prop1, prop2): the new dict and the heap after it
MergeTwoProperties(prop1, prop2, heap) ==
    [ merged |-> [ key \in DOMAIN prop1 \cup DOMAIN prop2 |->
                     IF key \in DOMAIN prop2
                     THEN MergeKey(prop1, key, prop2[key], heap)
                     ELSE prop1[key] ],
      heap |-> MergeHeap(prop1, prop2, heap) ]

\* a dict with the dict objects it refers to written out
Deref(data, heap) ==
    [ key \in DOMAIN data |->
        IF data[key].t = "dict" THEN DictVal(heap[data[key].n]) ELSE data[key] ]

MrgInit ==
    /\ \E cluster \in Clusters(MaxCluster) :
        LET heap == [ i \in 1..Len(cluster) |-> cluster[i].features ]
        IN  mrg = [ properties |->
                        [ i \in 1..Len(cluster) |->
                            IF cluster[i].own
                            THEN Put(cluster[i].data, "features", DictRef(i))
                            ELSE cluster[i].data ],
                    heap |-> heap, heap0 |-> heap,
                    pc |-> "call", k |-> 0, calls |-> 1,
                    merged |-> [key \in {} |-> PyNone],
                    results |-> <<>> ]
    /\ cmp = None
    /\ grp = None

\* if not properties: return {}
MrgReturnEmpty ==
    /\ mrg.pc = "call"
    /\ mrg.properties = <<>>
    /\ mrg' = [mrg EXCEPT !.pc = "returned",
                          !.results = Append(@, [key \in {} |-> PyNone])]
    /\ UNCHANGED <<fetchVars, simVars, valVars, procVars, xfVars, fpVars, crawlVars,
                   cmp, grp, extVars, jobVars>>

\* if len(properties) == 1: return properties[0]
MrgReturnOnly ==
    /\ mrg.pc = "call"
    /\ Len(mrg.properties) = 1
    /\ mrg' = [mrg EXCEPT !.pc = "returned",
                          !.merged = mrg.properties[1],
                          !.results = Append(@, Deref(mrg.properties[1], mrg.heap))]
    /\ UNCHANGED <<fetchVars, simVars, valVars, procVars, xfVars, fpVars, crawlVars,
                   cmp, grp, extVars, jobVars>>

\* merged = properties[0].copy(): a new dict holding the same values
MrgCopy ==
    /\ mrg.pc = "call"
    /\ Len(mrg.properties) > 1
    /\ mrg' = [mrg EXCEPT !.pc = "loop", !.k = 2, !.merged = mrg.properties[1]]
    /\ UNCHANGED <<fetchVars, simVars, valVars, procVars, xfVars, fpVars, crawlVars,
                   cmp, grp, extVars, jobVars>>

\* merged = self._merge_two_properties(merged, prop)
MrgMergeTwo ==
    /\ mrg.pc = "loop"
    /\ mrg.k <= Len(mrg.properties)
    /\ \E out \in {MergeTwoProperties(mrg.merged, mrg.properties[mrg.k], mrg.heap)} :
        mrg' = [mrg EXCEPT !.k = mrg.k + 1, !.merged = out.merged, !.heap = out.heap]
    /\ UNCHANGED <<fetchVars, simVars, valVars, procVars, xfVars, fpVars, crawlVars,
                   cmp, grp, extVars, jobVars>>

\* return merged
MrgReturn ==
    /\ mrg.pc = "loop"
    /\ mrg.k > Len(mrg.properties)
    /\ mrg' = [mrg EXCEPT !.pc = "returned",
                          !.results = Append(@, Deref(mrg.merged, mrg.heap))]
    /\ UNCHANGED <<fetchVars, simVars, valVars, procVars, xfVars, fpVars, crawlVars,
                   cmp, grp, extVars, jobVars>>

\* the caller merges the same list once more
MrgAgain ==
    /\ mrg.pc = "returned"
    /\ mrg.calls < MaxMergeCalls
    /\ mrg' = [mrg EXCEPT !.pc = "call", !.calls = mrg.calls + 1]
    /\ UNCHANGED <<fetchVars, simVars, valVars, procVars, xfVars, fpVars, crawlVars,
                   cmp, grp, extVars, jobVars>>

InitMerge ==
    MrgInit /\ FetchIdle /\ SimIdle /\ ValIdle /\ ProcIdle /\ XfIdle /\ FpIdle
    /\ CrawlIdle /\ ExtIdle /\ JobIdle
NextMerge ==
    \/ MrgReturnEmpty
    \/ MrgReturnOnly
    \/ MrgCopy
    \/ MrgMergeTwo
    \/ MrgReturn
    \/ MrgAgain
SpecMerge == InitMerge /\ [][NextMerge]_vars

\* a price that is present and not zero
PresentNonZero(data, key) ==
    /\ ~MrgMissing(data, key)
    /\ ~(data[key].t = "num" /\ data[key].n = 0)
PriceFields == {"price", "rent_estimate"}
\* the members, in cluster order, that hold such a price
Priced(key) ==
    {i \in 1..Len(mrg.properties) : PresentNonZero(mrg.properties[i], key)}
FirstPriced(key) == CHOOSE i \in Priced(key) : \A j \in Priced(key) : i <= j

\* C24: the merged price (and rent_estimate) of a cluster is that of the
\* first member whose value is present and non-zero, whatever later members
\* hold; it is missing or zero only when it is so in every member.
C24_FirstNonZeroPriceWins ==
    (mrg.pc = "returned" /\ mrg.properties # <<>>) =>
        \A key \in PriceFields :
            LET merged == mrg.results[Len(mrg.results)]
            IN  IF Priced(key) # {}
                THEN /\ key \in DOMAIN merged
                     /\ merged[key] = mrg.properties[FirstPriced(key)][key]
                ELSE ~PresentNonZero(merged, key)

\* prices 0, 100, 200 in cluster order: the merged price is 100
C24_Witness ==
    /\ mrg.pc = "returned"
    /\ Len(mrg.properties) = 3
    /\ Get(mrg.properties[1], "price") = Num(0)
    /\ Get(mrg.properties[2], "price") = Num(100)
    /\ Get(mrg.properties[3], "price") = Num(200)
    /\ Get(mrg.results[Len(mrg.results)], "price") = Num(100)

\* the members as they are now and as they were before the first call
MembersNow == [i \in 1..Len(mrg.properties) |-> Deref(mrg.properties[i], mrg.heap)]
MembersBefore == [i \in 1..Len(mrg.properties) |-> Deref(mrg.properties[i], mrg.heap0)]

\* C29: merging leaves every member as it was before the call (scalar fields,
\* images list and features map), and a second merge of the same list returns
\* the same merged record.
C29_MergeLeavesInputsUnchanged ==
    /\ MembersNow = MembersBefore
    /\ Len(mrg.results) >= 2 => mrg.results[2] = mrg.results[1]

\* the second half of C29 on its own
C29_SecondMergeReturnsTheSame ==
    Len(mrg.results) >= 2 => mrg.results[2] = mrg.results[1]

(***************************************************************************)
(* DataTransformer._extract_property_details: bedrooms, bathrooms, square  *)
(* feet and features read from the text fields of a record.  The texts     *)
(* used here hold letters, digits and blanks only.                         *)
(***************************************************************************)
\* one regular expression `(\d+)\s*(?:w1|w2|...)`: the words, and whether
\* blanks may stand between the number and the word
bed_patterns ==
    << [ words |-> {<<"b", "e", "d">>, <<"b", "e", "d", "r", "o", "o", "m">>, <<"b", "r">>, <<"b", "d">>}, blanks |-> TRUE ],
       [ words |-> {<<"b", "r">>}, blanks |-> FALSE ] >>
bath_patterns ==
    << [ words |-> {<<"b", "a", "t", "h">>, <<"b", "a", "t", "h", "r", "o", "o", "m">>, <<"b", "a">>}, blanks |-> TRUE ],
       [ words |-> {<<"b", "a">>}, blanks |-> FALSE ] >>
sqft_patterns ==
    << [ words |-> {<<"s", "q", " ", "f", "t">>, <<"s", "q", "f", "t">>, <<"s", "q", "u", "a", "r", "e", " ", "f", "e", "e", "t">>, <<"s", "q", "u", "a", "r", "e", "f", "e", "e", "t">>}, blanks |-> TRUE ],
       [ words |-> {<<"s", "f">>}, blanks |-> TRUE ] >>

\* the keyword families of _extract_features modelled here (the other
\* fifteen are scanned by the same loop)
feature_keywords ==
    [ pool |-> {<<"p", "o", "o", "l">>, <<"s", "w", "i", "m", "m", "i", "n", "g", " ", "p", "o", "o", "l">>},
      garage |-> {<<"g", "a", "r", "a", "g", "e">>, <<"p", "a", "r", "k", "i", "n", "g">>, <<"c", "a", "r", " ", "p", "o", "r", "t">>, <<"c", "a", "r", "p", "o", "r", "t">>},
      gym |-> {<<"g", "y", "m">>, <<"f", "i", "t", "n", "e", "s", "s">>, <<"e", "x", "e", "r", "c", "i", "s", "e", " ", "r", "o", "o", "m">>} ]

\* the end of the run of digits that starts at position i
RECURSIVE RunEnd(_, _)
RunEnd(text, i) ==
    IF i < Len(text) /\ IsDigit(text[i + 1]) THEN RunEnd(text, i + 1) ELSE i
\* the first position from p on that holds no blank
RECURSIVE SkipBlanks(_, _)
SkipBlanks(text, p) ==
    IF p <= Len(text) /\ IsSpace(text[p]) THEN SkipBlanks(text, p + 1) ELSE p
WordAt(text, p, word) ==
    p + Len(word) - 1 <= Len(text) /\ SubSeq(text, p, p + Len(word) - 1) = word

\* re.search(pattern, text): the leftmost run of digits followed by one of
\* the words; found = FALSE is the None of re.search
Search(pattern, text) ==
    LET starts ==
            {i \in 1..Len(text) :
                /\ IsDigit(text[i])
                /\ (i = 1 \/ ~IsDigit(text[i - 1]))
                /\ \E w \in pattern.words :
                    WordAt(text,
                           IF pattern.blanks
                           THEN SkipBlanks(text, RunEnd(text, i) + 1)
                           ELSE RunEnd(text, i) + 1,
                           w)}
    IN  IF starts = {} THEN [found |-> FALSE, group |-> <<>>]
        ELSE LET i == CHOOSE s \in starts : \A o \in starts : s <= o
             IN  [found |-> TRUE, group |-> SubSeq(text, i, RunEnd(text, i))]

\* the loop `for pattern in patterns: match = re.search(...); return number`
RECURSIVE FirstNumber(_, _, _)
FirstNumber(patterns, text, k) ==
    IF k > Len(patterns) THEN PyNone
    ELSE IF Search(patterns[k], text).found
         THEN Num(DigitsVal(Search(patterns[k], text).group))
         ELSE FirstNumber(patterns, text, k + 1)

\* _extract_bedrooms
ExtractBedrooms(text) ==
    IF Contains(text, <<"s", "t", "u", "d", "i", "o">>) THEN Num(0) ELSE FirstNumber(bed_patterns, text, 1)
\* _extract_bathrooms
ExtractBathrooms(text) == FirstNumber(bath_patterns, text, 1)
\* _extract_square_feet
ExtractSquareFeet(text) == FirstNumber(sqft_patterns, text, 1)

\* _extract_features: the families one of whose keywords is in the text
ExtractFeatures(text) ==
    LET found == {f \in DOMAIN feature_keywords :
                    \E keyword \in feature_keywords[f] : Contains(text, keyword)}
    IN  [f \in found |-> TRUE]

\* existing_features.update(features)
UpdateFeatures(existing_features, features) ==
    [ f \in DOMAIN existing_features \cup DOMAIN features |->
        IF f \in DOMAIN features THEN features[f] ELSE existing_features[f] ]

NoMap == [f \in {} |-> TRUE]

\* the text the details are read from: description, title and features_text,
\* lower-cased and joined with a blank
TextSources(data) ==
    LET fields == <<"description", "title", "features_text">>
        held == SelectSeq(fields, LAMBDA f : f \in DOMAIN data /\ Truthy(data[f]))
    IN  [i \in 1..Len(held) |-> ToLower(PyStr(data[held[i]]))]

\* 'field' not in data or not data['field']
NotPresent(data, field) ==
    field \notin DOMAIN data \/ ~Truthy(data[field])

FillFrom(data, field, value) ==
    IF NotPresent(data, field) /\ value.t # "None" THEN Put(data, field, value) ELSE data

\* _extract_property_details on a record: its dict of scalars, and its
\* features entry (fstate: "absent", "None" or "dict", and the map)
ExtractPropertyDetails(rec) ==
    LET full_text == Join(TextSources(rec.data))
        withBeds == FillFrom(rec.data, "bedrooms", ExtractBedrooms(full_text))
        withBaths == FillFrom(withBeds, "bathrooms", ExtractBathrooms(full_text))
        withSqft == FillFrom(withBaths, "square_feet", ExtractSquareFeet(full_text))
        features == ExtractFeatures(full_text)
        existing_features == IF rec.fstate = "dict" THEN rec.features ELSE NoMap
    IN  IF full_text = <<>> THEN rec
        ELSE IF features = NoMap
             THEN [rec EXCEPT !.data = withSqft]
             ELSE [ data |-> withSqft, fstate |-> "dict",
                    features |-> UpdateFeatures(existing_features, features) ]

\* the records the extraction is run on
ExtBedrooms == {PyNone, Num(0), Num(2)}
ExtBathrooms == {Num(0), Num(1)}
ExtSquareFeet == {Num(0), Num(800)}
ExtDescriptions ==
    { Str(<<>>), Str(<<"n", "i", "c", "e">>), Str(<<"3", " ", "b", "e", "d", " ", "2", " ", "b", "a", "t", "h">>), Str(<<"S", "t", "u", "d", "i", "o">>),
      Str(<<"p", "o", "o", "l", " ", "g", "y", "m">>), Str(<<"4", "b", "r", " ", "9", "0", "0", " ", "s", "q", "f", "t", " ", "p", "a", "r", "k", "i", "n", "g">>) }
ExtTitles == { Str(<<"G", "y", "m">>) }
ExtFeatureMaps ==
    { NoMap, [f \in {"pool"} |-> FALSE], [f \in {"pool"} |-> TRUE],
      [f \in {"gym", "garage"} |-> IF f = "gym" THEN TRUE ELSE FALSE] }
\* a dict with any of the keys left out
Optional(key, values) ==
    {[k \in {} |-> PyNone]} \cup {[k \in {key} |-> v] : v \in values}
Merged2(a, b) == [k \in DOMAIN a \cup DOMAIN b |-> IF k \in DOMAIN a THEN a[k] ELSE b[k]]
ExtDicts ==
    { Merged2(Merged2(Merged2(b, ba), Merged2(sq, d)), t) :
        b \in Optional("bedrooms", ExtBedrooms),
        ba \in Optional("bathrooms", ExtBathrooms),
        sq \in Optional("square_feet", ExtSquareFeet),
        d \in Optional("description", ExtDescriptions),
        t \in Optional("title", ExtTitles) }
ExtRecords ==
    { [data |-> data, fstate |-> "dict", features |-> m] :
        data \in ExtDicts, m \in ExtFeatureMaps }
    \cup { [data |-> data, fstate |-> s, features |-> NoMap] :
        data \in ExtDicts, s \in {"absent", "None"} }

ExtInit ==
    \E rec \in ExtRecords :
        ext = [ called |-> FALSE, input |-> rec, output |-> rec ]

\* transformed = self._extract_property_details(transformed)
ExtCall ==
    /\ ~ext.called
    /\ \E out \in {ExtractPropertyDetails(ext.input)} :
        ext' = [ext EXCEPT !.called = TRUE, !.output = out]
    /\ UNCHANGED <<fetchVars, simVars, valVars, procVars, xfVars, fpVars, crawlVars,
                   dedupVars, jobVars>>

InitExtract ==
    ExtInit /\ FetchIdle /\ SimIdle /\ ValIdle /\ ProcIdle /\ XfIdle /\ FpIdle
    /\ CrawlIdle /\ DedupIdle /\ JobIdle
NextExtract == ExtCall
SpecExtract == InitExtract /\ [][NextExtract]_vars

\* C25: every key of the feature map the record had before the extraction
\* keeps its value; extracted values come in only under keys it did not have.
C25_ExistingFeaturesWin ==
    (ext.called /\ ext.input.fstate = "dict") =>
        /\ ext.output.fstate = "dict"
        /\ \A f \in DOMAIN ext.input.features :
            /\ f \in DOMAIN ext.output.features
            /\ ext.output.features[f] = ext.input.features[f]

\* the fields free-text extraction may fill
DetailFields == {"bedrooms", "bathrooms", "square_feet"}

\* C26: a record that carries a value for bedrooms, bathrooms or square_feet,
\* the value 0 included, has the same value after the extraction, whatever
\* its text says.
C26_PresentDetailsAreKept ==
    ext.called =>
        \A field \in DetailFields :
            (field \in DOMAIN ext.input.data /\ ext.input.data[field].t # "None")
                => Get(ext.output.data, field) = ext.input.data[field]

\* the dollar amount of a numeric price as the transformer standardizes it
DollarAmount(price) == FracOf(StandardizePrice(price, "price"))

\* C27: after the transform stage every numeric price is 100 times its dollar
\* amount, whatever its magnitude (below 100,000 or not).
C27_PricesAreInCents ==
    (proc.pc \in {"dedup", "enrich", "save", "done"} /\ "price" \in proc.valid_df.cols) =>
        \A i \in 1..Len(proc.transformed_df.rows) :
            LET before == proc.valid_df.rows[i]["price"]
            IN  (before.t = "num" /\ before.n # 0) =>
                    proc.transformed_df.rows[i]["price"]
                        = NumV(FracMul(DollarAmount(before), Frac(100, 1)))

\* C28: any two consecutive outbound requests of an instance (the retry after
\* a 403 included) are at least delay_between_requests apart, and every
\* outbound request adds exactly one to the window's request counter (which
\* starts again from 0 when the window is reset).
C28_EveryRequestIsRateLimited ==
    [][ LET sent == Len(reqTimes') - Len(reqTimes)
        IN  /\ \A k \in 1..(Len(reqTimes') - 1) :
                    reqTimes'[k + 1] - reqTimes'[k] >= delay_between_requests
            /\ scraper'.request_count \in {scraper.request_count + sent, sent} ]_vars

\* C28 without the retry: the requests that follow a rate-limiting step
C28_FirstAttemptsAreRateLimited ==
    [][ Len(reqTimes') - Len(reqTimes) = 1 =>
            /\ (reqTimes # <<>> =>
                    reqTimes'[Len(reqTimes')] - reqTimes[Len(reqTimes)]
                        >= delay_between_requests)
            /\ scraper'.request_count \in {scraper.request_count + 1, 1} ]_vars

(***************************************************************************)
(* The scrape_properties task and the scrape_jobs row it updates through   *)
(* ScrapeJobCRUD.update.  The job store is available: no update raises.    *)
(* A timestamp is the number of the update that wrote it; 0 is NULL.       *)
(***************************************************************************)
\* the records the generator may yield in one run, and the updates made in a
\* free sequence of updates
MaxItems == 12
MaxUpdates == 4
\* `if i % 50 == 0` and `if errors > 10`
progress_every == 50
max_errors == 10

\* ScrapingStatus
ScrapingStatus == {"pending", "running", "completed", "failed", "cancelled", "retrying"}
TerminalStatuses == {"completed", "failed", "cancelled"}

\* a new scrape_jobs row
NewJob ==
    [ status |-> "pending", started_at |-> 0, completed_at |-> 0, updated_at |-> 0,
      pages_scraped |-> 0, properties_found |-> 0, properties_saved |-> 0,
      errors_count |-> 0, error_message |-> "" ]

\* ScrapeJobCRUD.update on the row db_job at time now; job_data holds the
\* fields that were set (dict(exclude_unset=True))
ScrapeJobUpdate(db_job, job_data, now) ==
    LET set == [ key \in DOMAIN db_job |->
                   IF key \in DOMAIN job_data THEN job_data[key] ELSE db_job[key] ]
        status == IF "status" \in DOMAIN job_data THEN job_data["status"] ELSE "unset"
    IN  [ set EXCEPT
            !.updated_at = now,
            !.started_at = IF status = "running" /\ set.started_at = 0 THEN now ELSE @,
            !.completed_at =
                IF ~(status = "running" /\ set.started_at = 0)
                     /\ status \in TerminalStatuses /\ set.completed_at = 0
                THEN now ELSE @ ]

\* the row after an update, with the update added to the history of updates
Updated(j, job_data) ==
    [ j EXCEPT !.now = j.now + 1,
               !.db_job = ScrapeJobUpdate(j.db_job, job_data, j.now + 1),
               !.updates = Append(@, [ status |-> IF "status" \in DOMAIN job_data
                                                    THEN job_data["status"] ELSE "unset",
                                        at |-> j.now + 1 ]) ]

JobInit ==
    job = [ pc |-> "start", db_job |-> NewJob, now |-> 0, updates |-> <<>>,
            i |-> 0, errors |-> 0, scraped_properties |-> 0, total_pages |-> 0,
            raised |-> FALSE ]

\* status RUNNING, pages_scraped 0, properties_found 0
JobRunning ==
    /\ job.pc = "start"
    /\ job' = [ Updated(job, [ status |-> "running", pages_scraped |-> 0,
                               properties_found |-> 0 ])
                EXCEPT !.pc = "scraper" ]
    /\ UNCHANGED <<fetchVars, simVars, valVars, procVars, xfVars, fpVars, crawlVars,
                   dedupVars, extVars>>

\* scraper = _get_scraper(data_source); an unknown one is a ValueError
JobGetScraper ==
    /\ job.pc = "scraper"
    /\ \E known \in BOOLEAN :
        job' = [job EXCEPT !.pc = IF known THEN "loop" ELSE "except"]
    /\ UNCHANGED <<fetchVars, simVars, valVars, procVars, xfVars, fpVars, crawlVars,
                   dedupVars, extVars>>

\* one pass of the loop over scraper.search_properties: the progress update
\* every 50 records, then the raw result stored (or not: stored = FALSE)
JobItem ==
    /\ job.pc = "loop"
    /\ job.i < MaxItems
    /\ \E stored \in BOOLEAN :
        LET progress == job.i % progress_every = 0
            total_pages == IF progress THEN (job.i \div progress_every) + 1
                           ELSE job.total_pages
            j1 == IF progress
                  THEN Updated(job, [ pages_scraped |-> total_pages,
                                      properties_found |-> job.i + 1 ])
                  ELSE job
            errors == IF stored THEN job.errors ELSE job.errors + 1
        IN  job' = [ j1 EXCEPT
                       !.total_pages = total_pages,
                       !.i = job.i + 1,
                       !.errors = errors,
                       !.scraped_properties = IF stored THEN @ + 1 ELSE @,
                       !.pc = IF ~stored /\ errors > max_errors
                              THEN "complete" ELSE "loop" ]
    /\ UNCHANGED <<fetchVars, simVars, valVars, procVars, xfVars, fpVars, crawlVars,
                   dedupVars, extVars>>

\* the generator is exhausted
JobExhausted ==
    /\ job.pc = "loop"
    /\ job' = [job EXCEPT !.pc = "complete"]
    /\ UNCHANGED <<fetchVars, simVars, valVars, procVars, xfVars, fpVars, crawlVars,
                   dedupVars, extVars>>

\* search_properties raises: logged and raised again
JobScrapeRaises ==
    /\ job.pc = "loop"
    /\ job' = [job EXCEPT !.pc = "except"]
    /\ UNCHANGED <<fetchVars, simVars, valVars, procVars, xfVars, fpVars, crawlVars,
                   dedupVars, extVars>>

\* status COMPLETED, properties_saved, errors_count, results_summary
JobCompleted ==
    /\ job.pc = "complete"
    /\ job' = [ Updated(job, [ status |-> "completed",
                               properties_saved |-> job.scraped_properties,
                               errors_count |-> job.errors ])
                EXCEPT !.pc = "dispatch" ]
    /\ UNCHANGED <<fetchVars, simVars, valVars, procVars, xfVars, fpVars, crawlVars,
                   dedupVars, extVars>>

\* if scraped_properties: process_scraped_data.delay(...), which raises when
\* the task cannot be sent (sent = FALSE); then the return
JobDispatch ==
    /\ job.pc = "dispatch"
    /\ \E sent \in BOOLEAN :
        /\ (job.scraped_properties = 0 => sent)
        /\ job' = [job EXCEPT !.pc = IF sent THEN "returned" ELSE "except"]
    /\ UNCHANGED <<fetchVars, simVars, valVars, procVars, xfVars, fpVars, crawlVars,
                   dedupVars, extVars>>

\* except Exception: status FAILED, error_message; raise
JobFailed ==
    /\ job.pc = "except"
    /\ job' = [ Updated(job, [ status |-> "failed", error_message |-> "error" ])
                EXCEPT !.pc = "raised", !.raised = TRUE ]
    /\ UNCHANGED <<fetchVars, simVars, valVars, procVars, xfVars, fpVars, crawlVars,
                   dedupVars, extVars>>

InitJob ==
    JobInit /\ FetchIdle /\ SimIdle /\ ValIdle /\ ProcIdle /\ XfIdle /\ FpIdle
    /\ CrawlIdle /\ DedupIdle /\ ExtIdle
NextJob ==
    \/ JobRunning
    \/ JobGetScraper
    \/ JobItem
    \/ JobExhausted
    \/ JobScrapeRaises
    \/ JobCompleted
    \/ JobDispatch
    \/ JobFailed
SpecJob == InitJob /\ [][NextJob]_vars

\* any sequence of updates of one row: a status, or none, in each
JobUpdatesInit ==
    job = [ pc |-> "updates", db_job |-> NewJob, now |-> 0, updates |-> <<>>,
            i |-> 0, errors |-> 0, scraped_properties |-> 0, total_pages |-> 0,
            raised |-> FALSE ]
JobAnyUpdate ==
    /\ job.pc = "updates"
    /\ Len(job.updates) < MaxUpdates
    /\ \E status \in ScrapingStatus \cup {"unset"} :
        job' = Updated(job, IF status = "unset" THEN [ pages_scraped |-> 1 ]
                            ELSE [ status |-> status ])
    /\ UNCHANGED <<fetchVars, simVars, valVars, procVars, xfVars, fpVars, crawlVars,
                   dedupVars, extVars>>
InitJobUpdates ==
    JobUpdatesInit /\ FetchIdle /\ SimIdle /\ ValIdle /\ ProcIdle /\ XfIdle /\ FpIdle
    /\ CrawlIdle /\ DedupIdle /\ ExtIdle
SpecJobUpdates == InitJobUpdates /\ [][JobAnyUpdate]_vars

\* the updates that wrote a status of the set S, in order
UpdatesTo(S) == SelectSeq(job.updates, LAMBDA u : u.status \in S)
\* the time of the first of them, 0 when there is none
FirstUpdateTo(S) == IF UpdatesTo(S) = <<>> THEN 0 ELSE UpdatesTo(S)[1].at

\* started_at is the time of the first update to RUNNING and completed_at
\* that of the first update to a terminal status, whatever came later
TimestampsAreFirstUpdates ==
    /\ job.db_job.started_at = FirstUpdateTo({"running"})
    /\ job.db_job.completed_at = FirstUpdateTo(TerminalStatuses)

\* C30: a run of the task writes RUNNING and then exactly one terminal status,
\* COMPLETED or FAILED, and FAILED exactly when the task raises; started_at
\* and completed_at are the times of the first update to RUNNING and of the
\* first update to a terminal status, unchanged by later updates.
C30_OneTerminalStatus ==
    /\ Len(UpdatesTo(TerminalStatuses)) <= 1
    /\ job.pc \in {"returned", "raised"} =>
          /\ Len(UpdatesTo(TerminalStatuses)) = 1
          /\ job.db_job.status = (IF job.raised THEN "failed" ELSE "completed")
    /\ TimestampsAreFirstUpdates

====
